---- MODULE Spec2Model ----
(***************************************************************************)
(* A model of the "seer" death clock: the life-expectancy estimator        *)
(* (computeExpectedYears), the BMI calculator, the calendar projection of  *)
(* handleSubmit, the countdown effect and the lazy TensorFlow.js loader.   *)
(*                                                                         *)
(* Numbers.  JavaScript numbers are doubles; the model keeps them exact    *)
(* as fixed-point integers:                                                *)
(*   - years are counted in 1/YearUnit of a year (81.6 years = 81600);     *)
(*   - a BMI is counted in tenths (22.9 = 229), which is the precision     *)
(*     calculateBMI stores;                                                *)
(*   - a Date is [day |-> civil day number (days since 1970-01-01),        *)
(*     ms |-> milliseconds since local midnight]; local time has no        *)
(*     daylight saving shift.  getTime() would be day * MS_IN_DAY + ms,    *)
(*     which does not fit TLC's integers, so differences of two Dates are  *)
(*     kept as the pair (whole days, milliseconds).                        *)
(* "number | null" and "Date | null" values are <<>> for null and <<v>>    *)
(* for a value.                                                            *)
(***************************************************************************)
EXTENDS Integers, Sequences, FiniteSets, TLC

Null == <<>>
Some(x) == <<x>>

Max(a, b) == IF a >= b THEN a ELSE b

(***************************************************************************)
(* Program constants.                                                      *)
(***************************************************************************)
MS_IN_SECOND == 1000
MS_IN_MINUTE == MS_IN_SECOND * 60
MS_IN_HOUR == MS_IN_MINUTE * 60
MS_IN_DAY == MS_IN_HOUR * 24
DAYS_IN_WEEK == 7
\* DAYS_IN_MONTH = 30.44 and DAYS_IN_YEAR = 365.25, both times 100.
DAYS_IN_MONTH_X100 == 3044
DAYS_IN_YEAR_X100 == 36525

\* One year in the model's fixed-point unit.
YearUnit == 10 * 100

MONTHS == <<"January", "February", "March", "April", "May", "June", "July",
            "August", "September", "October", "November", "December">>

DAYS_OF_WEEK == <<"Sunday", "Monday", "Tuesday", "Wednesday", "Thursday",
                  "Friday", "Saturday">>

\* The rows of the table the model's countries use, in YearUnit.
COUNTRY_LIFE_EXPECTANCY ==
    [c \in {"Japan", "United States", "Nigeria"} |->
        CASE c = "Japan" -> [male |-> 81600, female |-> 87700]
          [] c = "United States" -> [male |-> 76400, female |-> 81200]
          [] c = "Nigeria" -> [male |-> 52700, female |-> 54700]]

INITIAL_FORM_DATA ==
    [birthDay |-> "", birthMonth |-> "", birthYear |-> "", sex |-> "",
     smoker |-> FALSE, bmi |-> "", outlook |-> "", alcoholConsumption |-> "",
     country |-> "", includeFitnessDiet |-> FALSE, fitnessLevel |-> "",
     dietRating |-> ""]

INITIAL_BMI_DATA ==
    [weightUnit |-> "", weightValue |-> "", heightUnit |-> "", heightValue |-> ""]

\* deathDate and testDate are the formatted texts, kept as their parts
\* <<weekday, day, suffix, month, year>>; lifeExpectancy is <<years, months, days>>.
INITIAL_DEATH_RESULTS ==
    [deathDate |-> <<>>, lifeExpectancy |-> <<>>, daysRemaining |-> 0,
     hoursRemaining |-> 0, minutesRemaining |-> 0, secondsRemaining |-> 0,
     approximateYears |-> 0, targetDeathDate |-> Null, currentAge |-> 0,
     ageInMonths |-> 0, ageInDays |-> 0, testDate |-> <<>>,
     totalDaysLived |-> 0, totalWeeksLived |-> 0, totalMonthsLived |-> 0]

INITIAL_COUNTDOWN_TIME ==
    [daysRemaining |-> 0, hoursRemaining |-> 0, minutesRemaining |-> 0,
     secondsRemaining |-> 0, approximateYears |-> 0]

(***************************************************************************)
(* The JavaScript Date operations the program uses.                        *)
(***************************************************************************)
\* Days since 1970-01-01 of the proleptic Gregorian date y-m-d, m in 1..12.
DaysFromCivil(y, m, d) ==
    LET yy == IF m <= 2 THEN y - 1 ELSE y
        era == yy \div 400
        yoe == yy - era * 400
        mp == IF m > 2 THEN m - 3 ELSE m + 9
        doy == (153 * mp + 2) \div 5 + d - 1
        doe == yoe * 365 + yoe \div 4 - yoe \div 100 + doy
    IN era * 146097 + doe - 719468

\* The civil date of a day number, month in 1..12, computed in steps: from the
\* month counted from March (mp), the day of the March-based year (doy), the
\* year of the 400-year era (yoe) and the day of the era (doe).
CivilOfMp(y, doy, mp) ==
    [year |-> IF mp < 10 THEN y ELSE y + 1,
     month |-> IF mp < 10 THEN mp + 3 ELSE mp - 9,
     day |-> doy - (153 * mp + 2) \div 5 + 1]
CivilOfDoy(y, doy) == CivilOfMp(y, doy, (5 * doy + 2) \div 153)
CivilOfYoe(era, doe, yoe) ==
    CivilOfDoy(yoe + era * 400, doe - (365 * yoe + yoe \div 4 - yoe \div 100))
CivilOfDoe(era, doe) ==
    CivilOfYoe(era, doe,
               (doe - doe \div 1460 + doe \div 36524 - doe \div 146096) \div 365)
CivilOfEra(z, era) == CivilOfDoe(era, z - era * 146097)
CivilFromDays(n) == CivilOfEra(n + 719468, (n + 719468) \div 146097)

\* new Date(year, monthIndex, day): month index and day outside their ranges
\* roll over into the neighbouring months and years.
NewDate(year, monthIndex, day) ==
    [day |-> DaysFromCivil(year + (monthIndex \div 12), (monthIndex % 12) + 1, 1) + day - 1,
     ms |-> 0]

GetFullYear(date) == CivilFromDays(date.day).year
GetMonth(date) == CivilFromDays(date.day).month - 1
GetDate(date) == CivilFromDays(date.day).day
GetDay(date) == (date.day + 4) % 7

SetFullYear(date, year) ==
    [date EXCEPT !.day = NewDate(year, GetMonth(date), GetDate(date)).day]
SetMonth(date, monthIndex) ==
    [date EXCEPT !.day = NewDate(GetFullYear(date), monthIndex, GetDate(date)).day]
SetDate(date, day) ==
    [date EXCEPT !.day = NewDate(GetFullYear(date), GetMonth(date), day).day]

\* a.getTime() - b.getTime() as [days, ms] with 0 <= ms < MS_IN_DAY, so that the
\* difference is days * MS_IN_DAY + ms.
TimeDiff(a, b) ==
    IF a.ms >= b.ms THEN [days |-> a.day - b.day, ms |-> a.ms - b.ms]
    ELSE [days |-> a.day - b.day - 1, ms |-> a.ms - b.ms + MS_IN_DAY]

DiffIsPositive(diff) == diff.days >= 0 /\ (diff.days > 0 \/ diff.ms > 0)
DiffIsNegative(diff) == diff.days < 0

\* Math.floor(timeDiff / MS_IN_DAY).
FloorDays(diff) == diff.days

\* timeDiff % MS_IN_DAY: JavaScript's remainder has the sign of the dividend.
RemDay(diff) ==
    IF diff.days >= 0 \/ diff.ms = 0 THEN diff.ms ELSE diff.ms - MS_IN_DAY

\* x % m for an int x, with the sign of x.
JsRem(x, m) == IF x >= 0 THEN x % m ELSE -((-x) % m)

DateLeq(a, b) == a.day < b.day \/ (a.day = b.day /\ a.ms <= b.ms)

(***************************************************************************)
(* The expectancy estimator, computeExpectedYears.                         *)
(***************************************************************************)
PredictionModes == {"rule", "who", "ml"}

\* The midpoint of the selected BMI bucket, in tenths; null for no bucket.
BmiFromCategory(bmi) ==
    CASE bmi = "under18.5" -> Some(170)
      [] bmi = "18.5-24.9" -> Some(220)
      [] bmi = "25-29.9" -> Some(270)
      [] bmi = "30-34.9" -> Some(320)
      [] bmi = "35+" -> Some(370)
      [] OTHER -> Null

\* lifeExpectancyData[formData.country], then the female or the male column.
CountryBaseline(formData) ==
    IF formData.country \in DOMAIN COUNTRY_LIFE_EXPECTANCY
    THEN Some(IF formData.sex = "female"
              THEN COUNTRY_LIFE_EXPECTANCY[formData.country].female
              ELSE COUNTRY_LIFE_EXPECTANCY[formData.country].male)
    ELSE Null

\* A catch branch that keeps the default of 78 years for an unknown country.
MlFallback_KeepsDefault(formData) ==
    [base |-> IF CountryBaseline(formData) # Null
              THEN CountryBaseline(formData)[1] ELSE 78 * YearUnit,
     usedModel |-> "who"]

\* The catch branch of the ml mode: the who baseline, reported as who.
MlFallback(formData) ==
    [base |-> IF CountryBaseline(formData) # Null
              THEN CountryBaseline(formData)[1] ELSE 100 * YearUnit,
     usedModel |-> "who"]

\* A baseline selection whose who branch keeps the default of 78 years for an
\* unknown country.
SelectBaseline_WhoKeepsDefault(formData, predictionMode, prediction) ==
    LET countryData == CountryBaseline(formData)
    IN CASE predictionMode = "rule" ->
              [base |-> IF countryData # Null THEN countryData[1]
                        ELSE IF formData.sex = "female" THEN 78 * YearUnit + 4 * YearUnit
                        ELSE 78 * YearUnit,
               usedModel |-> "rule"]
         [] predictionMode = "who" ->
              [base |-> IF countryData # Null THEN countryData[1] ELSE 78 * YearUnit,
               usedModel |-> "who"]
         [] predictionMode = "ml" ->
              IF prediction # Null
              THEN [base |-> prediction[1], usedModel |-> "ml"]
              ELSE MlFallback(formData)

\* The baseline and the strategy reported, before any adjustment.  prediction
\* is what "await predictWithModel(modelInput)" gave: null or a number.
SelectBaseline(formData, predictionMode, prediction) ==
    LET countryData == CountryBaseline(formData)
    IN CASE predictionMode = "rule" ->
              [base |-> IF countryData # Null THEN countryData[1]
                        ELSE IF formData.sex = "female" THEN 78 * YearUnit + 4 * YearUnit
                        ELSE 78 * YearUnit,
               usedModel |-> "rule"]
         [] predictionMode = "who" ->
              [base |-> IF countryData # Null THEN countryData[1] ELSE 100 * YearUnit,
               usedModel |-> "who"]
         [] predictionMode = "ml" ->
              IF prediction # Null
              THEN [base |-> prediction[1], usedModel |-> "ml"]
              ELSE MlFallback(formData)

\* A BMI adjustment whose thresholds belong to the lower band.
BmiAdjustment_ExclusiveBounds(formData, calculatedBMI) ==
    LET bmiToUse == IF calculatedBMI # Null THEN calculatedBMI
                    ELSE BmiFromCategory(formData.bmi)
    IN IF bmiToUse = Null THEN 0
       ELSE LET b == bmiToUse[1]
            IN IF b <= 160 THEN -8 * YearUnit
               ELSE IF b <= 185 THEN -3 * YearUnit
               ELSE IF b <= 250 THEN 2 * YearUnit
               ELSE IF b <= 300 THEN -2 * YearUnit
               ELSE IF b <= 350 THEN -6 * YearUnit
               ELSE IF b <= 400 THEN -10 * YearUnit
               ELSE -15 * YearUnit

BmiAdjustment(formData, calculatedBMI) ==
    LET bmiToUse == IF calculatedBMI # Null THEN calculatedBMI
                    ELSE BmiFromCategory(formData.bmi)
    IN IF bmiToUse = Null THEN 0
       ELSE LET b == bmiToUse[1]
            IN IF b < 160 THEN -8 * YearUnit
               ELSE IF b < 185 THEN -3 * YearUnit
               ELSE IF b < 250 THEN 2 * YearUnit
               ELSE IF b < 300 THEN -2 * YearUnit
               ELSE IF b < 350 THEN -6 * YearUnit
               ELSE IF b < 400 THEN -10 * YearUnit
               ELSE -15 * YearUnit

SmokerAdjustment(formData) ==
    IF formData.smoker
    THEN (IF formData.sex = "male" THEN -13200 ELSE -14500)
    ELSE 0

AlcoholAdjustment(formData) ==
    CASE formData.alcoholConsumption = "never" -> 500
      [] formData.alcoholConsumption = "once-a-month" -> 1 * YearUnit
      [] formData.alcoholConsumption = "2-4-times-per-month" -> 500
      [] formData.alcoholConsumption = "2-times-a-week" -> -1 * YearUnit
      [] formData.alcoholConsumption = "daily" -> -5 * YearUnit
      [] formData.alcoholConsumption = "constantly-blotto" -> -15 * YearUnit
      [] OTHER -> 0

OutlookAdjustment(formData) ==
    CASE formData.outlook = "optimistic" -> 2 * YearUnit
      [] formData.outlook = "pessimistic" -> -3 * YearUnit
      [] OTHER -> 0

\* Fitness and diet adjustments applied whether or not they are included.
FitnessDietAdjustment_IgnoresFlag(formData) ==
    (CASE formData.fitnessLevel = "ironman" -> 8 * YearUnit
       [] formData.fitnessLevel = "very-active" -> 5 * YearUnit
       [] formData.fitnessLevel = "moderately-active" -> 3 * YearUnit
       [] formData.fitnessLevel = "couch-potato" -> -4 * YearUnit
       [] OTHER -> 0)
    + (CASE formData.dietRating = "excellent" -> 4 * YearUnit
         [] formData.dietRating = "good" -> 2 * YearUnit
         [] formData.dietRating = "ok" -> 0
         [] formData.dietRating = "terrible" -> -3 * YearUnit
         [] OTHER -> 0)

FitnessDietAdjustment(formData) ==
    IF formData.includeFitnessDiet
    THEN (CASE formData.fitnessLevel = "ironman" -> 8 * YearUnit
            [] formData.fitnessLevel = "very-active" -> 5 * YearUnit
            [] formData.fitnessLevel = "moderately-active" -> 3 * YearUnit
            [] formData.fitnessLevel = "couch-potato" -> -4 * YearUnit
            [] OTHER -> 0)
         + (CASE formData.dietRating = "excellent" -> 4 * YearUnit
              [] formData.dietRating = "good" -> 2 * YearUnit
              [] formData.dietRating = "ok" -> 0
              [] formData.dietRating = "terrible" -> -3 * YearUnit
              [] OTHER -> 0)
    ELSE 0

\* A jitter of (Math.random() - 0.5) * 5.
RandomFactor_TimesFive(random) == (random - YearUnit \div 2) * 5

\* (Math.random() - 0.5) * 4, for Math.random() = random / YearUnit in [0, 1).
RandomFactor(random) == (random - YearUnit \div 2) * 4

\* The return value without Math.max(0, ...).
ClampYears_NoMax(currentAge, baseLifeExpectancy) == baseLifeExpectancy

\* currentAge + Math.max(0, baseLifeExpectancy - currentAge), in YearUnit.
ClampYears(currentAge, baseLifeExpectancy) ==
    currentAge * YearUnit + Max(0, baseLifeExpectancy - currentAge * YearUnit)

ComputeExpectedYears(formData, predictionMode, currentAge, calculatedBMI, prediction, random) ==
    LET selected == SelectBaseline(formData, predictionMode, prediction)
        ageAdjustment == currentAge * (YearUnit \div 10)
        baseLifeExpectancy ==
            selected.base - ageAdjustment
            + BmiAdjustment(formData, calculatedBMI)
            + SmokerAdjustment(formData)
            + AlcoholAdjustment(formData)
            + OutlookAdjustment(formData)
            + FitnessDietAdjustment(formData)
            + RandomFactor(random)
    IN [years |-> ClampYears(currentAge, baseLifeExpectancy),
        usedModel |-> selected.usedModel]

\* prepareModelInput: the eight features handed to the model, the BMI in
\* tenths.  "calculatedBMI || bmiFromCategory || 22" passes over null and 0.
PrepareModelInput(formData, currentAge, calculatedBMI) ==
    [age |-> currentAge,
     sex |-> IF formData.sex = "female" THEN 1 ELSE 0,
     bmi |-> IF calculatedBMI # Null /\ calculatedBMI[1] # 0 THEN calculatedBMI[1]
             ELSE IF BmiFromCategory(formData.bmi) # Null
             THEN BmiFromCategory(formData.bmi)[1]
             ELSE 220,
     smoker |-> IF formData.smoker THEN 1 ELSE 0,
     alcoholLevel |->
         CASE formData.alcoholConsumption = "never" -> 0
           [] formData.alcoholConsumption = "once-a-month" -> 1
           [] formData.alcoholConsumption = "2-4-times-per-month" -> 2
           [] formData.alcoholConsumption = "2-times-a-week" -> 3
           [] formData.alcoholConsumption = "daily" -> 4
           [] formData.alcoholConsumption = "constantly-blotto" -> 5
           [] OTHER -> 0,
     outlookLevel |->
         CASE formData.outlook = "optimistic" -> 2
           [] formData.outlook = "neutral" -> 1
           [] formData.outlook = "pessimistic" -> 0
           [] OTHER -> 1,
     fitnessLevel |->
         IF ~formData.includeFitnessDiet THEN 1
         ELSE CASE formData.fitnessLevel = "couch-potato" -> 0
                [] formData.fitnessLevel = "moderately-active" -> 1
                [] formData.fitnessLevel = "very-active" -> 2
                [] formData.fitnessLevel = "ironman" -> 3
                [] OTHER -> 1,
     dietLevel |->
         IF ~formData.includeFitnessDiet THEN 1
         ELSE CASE formData.dietRating = "terrible" -> 0
                [] formData.dietRating = "ok" -> 1
                [] formData.dietRating = "good" -> 2
                [] formData.dietRating = "excellent" -> 3
                [] OTHER -> 1]

\* predictWithModel: model is what loadTFModel resolved to, outcome what
\* model.predict and prediction.data() do: [kind |-> "value", value |-> years],
\* or kind "throw" (an exception) or "null" (predict gives null, and
\* prediction.data() then throws).  Every failure is caught and gives null.
PredictWithModel(model, outcome) ==
    IF model = Null THEN Null
    ELSE IF outcome.kind = "value" THEN Some(outcome.value)
    ELSE Null

(***************************************************************************)
(* The BMI calculator.                                                     *)
(***************************************************************************)
\* The numbers the text of a select or an input can denote in the model.
ParseRange == (-300 .. 500) \cup (1900 .. 2100)

\* The decimal text of each number, as Number.prototype.toString gives it.
DecimalText == [n \in ParseRange |-> ToString(n)]

\* The number each of these texts denotes.
NumberOfText ==
    [t \in {DecimalText[n] : n \in ParseRange} |->
        CHOOSE n \in ParseRange : DecimalText[n] = t]

\* parseFloat and parseInt on the texts the model uses: the decimal text of an
\* integer gives that integer, any other text (the empty text, letters) NaN,
\* which is null here.
ParseNumber(text) ==
    IF text \in DOMAIN NumberOfText THEN Some(NumberOfText[text]) ELSE Null

\* a * b = q * c + r with 0 <= r < c, for a, b >= 0 and c > 0, computed by
\* halving b so that no intermediate value leaves the 32-bit integers.
RECURSIVE MulDivMod(_, _, _)
MulDivMod(a, b, c) ==
    IF b = 0 THEN [q |-> 0, r |-> 0]
    ELSE LET h == MulDivMod(a, b \div 2, c)
             odd == b % 2
             r2 == 2 * h.r + odd * (a % c)
         IN [q |-> 2 * h.q + odd * (a \div c) + r2 \div c, r |-> r2 % c]

\* Math.round(num * w / den): the nearest integer, halves rounded up,
\* for num, den > 0 and any integer w.
RoundRatio(num, w, den) ==
    LET m == MulDivMod(num, IF w >= 0 THEN w ELSE -w, den)
    IN IF w >= 0
       THEN m.q + (IF m.r >= den - m.r THEN 1 ELSE 0)
       ELSE \* floor(-(q + r/den) + 1/2)
            -m.q + (IF m.r <= den - m.r THEN 0 ELSE -1)

\* The inputs on which the double arithmetic of calculateBMI ends just below
\* an exact half: 160 / 100 is a double slightly above 1.6, so for a height of
\* 160 cm and a weight in kilograms of 16, 48, 80, ... the double bmi * 10 is
\* a little less than the exact value ending in .5, and Math.round goes down.
\* For the weights and heights the selects offer (30..229 kg, 70..469 lb,
\* 140..239 cm, 48..83 inches) and for the texts of BmiTexts these are the only
\* inputs on which the doubles and the exact arithmetic round differently.
RoundsBelowHalf(weight, weightUnit, height, heightUnit) ==
    /\ heightUnit = "cm" /\ weightUnit # "pounds"
    /\ height \in {160, -160}
    /\ weight > 0 /\ weight % 32 = 16

\* The rounding, half up, of the exact value of bmi * 10, where
\* bmi = weightInKg / (heightInM * heightInM): pounds are 0.453592 kg, inches
\* 0.0254 m, cm 1/100 m; a weight in any other unit is taken as kilograms and
\* a height in any other unit as meters.  The factors are
\* 10 * kg-per-unit / (m-per-unit)^2 in lowest terms.
BmiTenths_Exact(weight, weightUnit, height, heightUnit) ==
    LET pounds == weightUnit = "pounds"
        num == CASE heightUnit = "inches" -> IF pounds THEN 113398000 ELSE 250000000
                 [] heightUnit = "cm" -> IF pounds THEN 226796 ELSE 100000
                 [] OTHER -> IF pounds THEN 56699 ELSE 10
        den == CASE heightUnit = "inches" -> 16129
                 [] heightUnit = "cm" -> IF pounds THEN 5 ELSE 1
                 [] OTHER -> IF pounds THEN 12500 ELSE 1
    IN RoundRatio(num, weight, den * height * height)

\* Math.round(bmi * 10) as the doubles compute it.
BmiTenths(weight, weightUnit, height, heightUnit) ==
    BmiTenths_Exact(weight, weightUnit, height, heightUnit)
        - (IF RoundsBelowHalf(weight, weightUnit, height, heightUnit) THEN 1 ELSE 0)

\* "if (!weight || !height) return": NaN and 0 are falsy, any other number is not.
Falsy(number) == number = Null \/ number[1] = 0

\* The value calculateBMI leaves in calculatedBMI.
CalculatedBMIAfter(data, previous) ==
    LET weight == ParseNumber(data.weightValue)
        height == ParseNumber(data.heightValue)
    IN IF Falsy(weight) \/ Falsy(height) THEN previous
       ELSE Some(BmiTenths(weight[1], data.weightUnit, height[1], data.heightUnit))

(***************************************************************************)
(* The calendar projection of handleSubmit and the countdown.              *)
(***************************************************************************)
\* A suffix chosen by the last digit alone.
GetOrdinalSuffix_LastDigitOnly(day) ==
    CASE day % 10 = 1 -> "st"
      [] day % 10 = 2 -> "nd"
      [] day % 10 = 3 -> "rd"
      [] OTHER -> "th"

GetOrdinalSuffix(day) ==
    IF day > 3 /\ day < 21 THEN "th"
    ELSE CASE day % 10 = 1 -> "st"
           [] day % 10 = 2 -> "nd"
           [] day % 10 = 3 -> "rd"
           [] OTHER -> "th"

\* `${weekday}, ${day}${suffix} ${month} ${year}`, as its parts.
FormatDate(date) ==
    <<DAYS_OF_WEEK[GetDay(date) + 1], GetDate(date), GetOrdinalSuffix(GetDate(date)),
      MONTHS[GetMonth(date) + 1], GetFullYear(date)>>

\* new Date(parseInt(birthYear), parseInt(birthMonth) - 1, parseInt(birthDay)),
\* for a form whose three birth fields are filled.
BirthDate(formData) ==
    NewDate(ParseNumber(formData.birthYear)[1],
            ParseNumber(formData.birthMonth)[1] - 1,
            ParseNumber(formData.birthDay)[1])

\* An age that is decremented only when the month of the birthday is ahead.
CurrentAge_MonthOnly(birthDate, today) ==
    LET monthDiff == GetMonth(today) - GetMonth(birthDate)
        years == GetFullYear(today) - GetFullYear(birthDate)
    IN IF monthDiff < 0 THEN years - 1 ELSE years

\* The age handleSubmit passes to the estimator.
CurrentAge(birthDate, today) ==
    LET monthDiff == GetMonth(today) - GetMonth(birthDate)
        dayDiff == GetDate(today) - GetDate(birthDate)
        years == GetFullYear(today) - GetFullYear(birthDate)
    IN IF monthDiff < 0 \/ (monthDiff = 0 /\ dayDiff < 0) THEN years - 1 ELSE years

\* The whole years, months and days of a lifespan given in YearUnit.
LifespanParts(totalLifeExpectancy) ==
    LET totalYears == totalLifeExpectancy \div YearUnit
        months == (totalLifeExpectancy - totalYears * YearUnit) * 12
        remainingMonths == months \div YearUnit
        remainingDays ==
            ((months - remainingMonths * YearUnit) * DAYS_IN_MONTH_X100)
                \div (YearUnit * 100)
    IN <<totalYears, remainingMonths, remainingDays>>

\* The death date: the birth date with the year, then the month, then the day
\* of the month set from the birth date's own fields plus the offsets.
DeathDate(birthDate, totalLifeExpectancy) ==
    LET parts == LifespanParts(totalLifeExpectancy)
        d1 == SetFullYear(birthDate, GetFullYear(birthDate) + parts[1])
        d2 == SetMonth(d1, GetMonth(birthDate) + parts[2])
    IN SetDate(d2, GetDate(birthDate) + parts[3])

\* The remaining time handleSubmit computes from timeDiff, before any clamp.
RemainingRaw(timeDiff) ==
    LET daysRemaining == FloorDays(timeDiff)
    IN [daysRemaining |-> daysRemaining,
        hoursRemaining |-> RemDay(timeDiff) \div MS_IN_HOUR,
        minutesRemaining |-> JsRem(RemDay(timeDiff), MS_IN_HOUR) \div MS_IN_MINUTE,
        secondsRemaining |-> JsRem(RemDay(timeDiff), MS_IN_MINUTE) \div MS_IN_SECOND,
        approximateYears |-> (daysRemaining * 100) \div DAYS_IN_YEAR_X100]

\* The remaining time without the five Math.max(0, ...).
RemainingClamped_NoMax(timeDiff) == RemainingRaw(timeDiff)

\* The remaining time with Math.max(0, ...) on the days only.
RemainingClamped_DaysOnly(timeDiff) ==
    [RemainingRaw(timeDiff) EXCEPT
        !.daysRemaining = Max(0, RemainingRaw(timeDiff).daysRemaining)]

\* The five Math.max(0, ...) of setDeathResults and setCurrentTime.
RemainingClamped(timeDiff) ==
    LET raw == RemainingRaw(timeDiff)
    IN [daysRemaining |-> Max(0, raw.daysRemaining),
        hoursRemaining |-> Max(0, raw.hoursRemaining),
        minutesRemaining |-> Max(0, raw.minutesRemaining),
        secondsRemaining |-> Max(0, raw.secondsRemaining),
        approximateYears |-> Max(0, raw.approximateYears)]

\* ageMonths and ageDays of handleSubmit.
AgeBreakdown(birthDate, today) ==
    LET monthDiff == GetMonth(today) - GetMonth(birthDate)
        dayDiff == GetDate(today) - GetDate(birthDate)
        months0 == IF monthDiff >= 0 THEN monthDiff ELSE 12 + monthDiff
        lastMonth == NewDate(GetFullYear(today), GetMonth(today) - 1, GetDate(birthDate))
    IN IF dayDiff >= 0
       THEN [ageMonths |-> months0, ageDays |-> dayDiff]
       ELSE [ageMonths |-> IF months0 > 0 THEN months0 - 1 ELSE 11,
             ageDays |-> FloorDays(TimeDiff(today, lastMonth))]

\* The record of setDeathResults, from the values handleSubmit has computed.
ResultsRecord(deathDate, remaining, age, totalDaysLived, today, currentAge, totalLifeExpectancy) ==
    [deathDate |-> FormatDate(deathDate),
     lifeExpectancy |-> LifespanParts(totalLifeExpectancy),
     daysRemaining |-> remaining.daysRemaining,
     hoursRemaining |-> remaining.hoursRemaining,
     minutesRemaining |-> remaining.minutesRemaining,
     secondsRemaining |-> remaining.secondsRemaining,
     approximateYears |-> remaining.approximateYears,
     targetDeathDate |-> Some(deathDate),
     currentAge |-> currentAge,
     ageInMonths |-> age.ageMonths,
     ageInDays |-> age.ageDays,
     testDate |-> FormatDate(today),
     totalDaysLived |-> totalDaysLived,
     totalWeeksLived |-> totalDaysLived \div DAYS_IN_WEEK,
     totalMonthsLived |-> (totalDaysLived * 100) \div DAYS_IN_MONTH_X100]

\* The record for a death date: the remaining time, the age and the days lived.
ResultsFor(deathDate, birthDate, today, currentAge, totalLifeExpectancy) ==
    ResultsRecord(deathDate, RemainingClamped(TimeDiff(deathDate, today)),
                  AgeBreakdown(birthDate, today),
                  FloorDays(TimeDiff(today, birthDate)), today, currentAge,
                  totalLifeExpectancy)

\* The record handleSubmit passes to setDeathResults.
DeathResults(birthDate, today, currentAge, totalLifeExpectancy) ==
    ResultsFor(DeathDate(birthDate, totalLifeExpectancy), birthDate, today,
               currentAge, totalLifeExpectancy)

\* updateCountdown without its "timeDiff <= 0" branch.
UpdateCountdown_NoZeroBranch(target, now) == RemainingRaw(TimeDiff(target, now))

\* The value updateCountdown passes to setCurrentTime.
UpdateCountdown(target, now) ==
    LET timeDiff == TimeDiff(target, now)
    IN IF ~DiffIsPositive(timeDiff) THEN INITIAL_COUNTDOWN_TIME
       ELSE [daysRemaining |-> FloorDays(timeDiff),
             hoursRemaining |-> RemDay(timeDiff) \div (1000 * 60 * 60),
             minutesRemaining |-> (RemDay(timeDiff) % (1000 * 60 * 60)) \div (1000 * 60),
             secondsRemaining |-> (RemDay(timeDiff) % (1000 * 60)) \div 1000,
             approximateYears |-> (FloorDays(timeDiff) * 100) \div DAYS_IN_YEAR_X100]

(***************************************************************************)
(* Bounds of the model: the values the environment supplies.               *)
(***************************************************************************)
\* The moment the page is opened, 2024-06-15 12:34:56.789.
StartTime == [day |-> DaysFromCivil(2024, 6, 15), ms |-> 45296789]

\* The values "new Date()" can give; each reading is not earlier than the last.
NowChoices ==
    {StartTime,
     [day |-> DaysFromCivil(2071, 2, 27), ms |-> 0],
     [day |-> DaysFromCivil(2100, 1, 1), ms |-> 1]}

\* The values of Math.random(), in 1/YearUnit: 0.5 and 0.875.
RandomChoices == {500, 875}

\* What the loaded model can do with an input.
PredictOutcomes ==
    {[kind |-> "value", value |-> 85 * YearUnit], [kind |-> "throw", value |-> 0]}

\* The selections the user makes in the form, as <<field, value>>.
FormEdits ==
    {<<"birthMonth", "6">>, <<"birthDay", "15">>, <<"birthYear", "1990">>,
     <<"sex", "male">>, <<"bmi", "18.5-24.9">>, <<"outlook", "neutral">>,
     <<"alcoholConsumption", "never">>, <<"country", "Japan">>}

\* The selections of the BMI card, as <<"weight" or "height", unit, value>>.
BmiEdits == {<<"weight", "kilos", "70">>, <<"height", "cm", "175">>}

\* handleSubmit calls waiting for the model at the same time, at most.
MaxPending == 1
\* Deferred loadTFModel calls queued at the same time, at most.
MaxIdleCallbacks == 1

(***************************************************************************)
(* The state.                                                              *)
(***************************************************************************)
VARIABLES
    formData, bmiData, calculatedBMI, isSubmitted, deathResults, currentTime,
    predictionMode, mlStatus, usedModelState,
    tfModelRef,            \* null or the loaded model
    modelLoadPromiseRef,   \* 0 for null, else the index of a load in loadPromises
    loadPromises,          \* every model load started: "pending", "model" or "failed"
    idleCallbacks,         \* deferred loadTFModel calls not yet run
    pendingSubmits,        \* handleSubmit calls suspended in predictWithModel
    timers,                \* the interval timers alive, each with its target
    countdownCleanup,      \* the timer the countdown effect will clear, or null
    clock,                 \* the last value "new Date()" gave
    estIn, estOut          \* one call of computeExpectedYears and its result

appVars == <<formData, bmiData, calculatedBMI, isSubmitted, deathResults,
             currentTime, predictionMode, mlStatus, usedModelState, tfModelRef,
             modelLoadPromiseRef, loadPromises, idleCallbacks, pendingSubmits,
             timers, countdownCleanup, clock>>
vars == <<appVars, estIn, estOut>>

\* The state of App after its first render.
AppInit ==
    /\ formData = INITIAL_FORM_DATA
    /\ bmiData = INITIAL_BMI_DATA
    /\ calculatedBMI = Null
    /\ isSubmitted = FALSE
    /\ deathResults = INITIAL_DEATH_RESULTS
    /\ currentTime = INITIAL_COUNTDOWN_TIME
    /\ predictionMode = "who"
    /\ mlStatus = "idle"
    /\ usedModelState = "who"
    /\ tfModelRef = Null
    /\ modelLoadPromiseRef = 0
    /\ loadPromises = <<>>
    /\ idleCallbacks = 0
    /\ pendingSubmits = <<>>
    /\ timers = <<>>
    /\ countdownCleanup = Null
    /\ clock = StartTime

NoEstimate == [formData |-> INITIAL_FORM_DATA, predictionMode |-> "who",
               currentAge |-> 0, calculatedBMI |-> Null, model |-> Null,
               outcome |-> [kind |-> "throw", value |-> 0], random |-> 0]

Init == AppInit /\ estIn = NoEstimate /\ estOut = Null

(***************************************************************************)
(* The form.                                                               *)
(***************************************************************************)
\* The years the year select offers: the current year and the 100 before it.
YearsOffered == {GetFullYear(StartTime) - i : i \in 0 .. 100}

\* The days the day select offers for the selected month and year
\* ("parseInt(...) || 1" and "|| new Date().getFullYear()" for empty fields).
DaysOffered(form, now) ==
    LET m == ParseNumber(form.birthMonth)
        y == ParseNumber(form.birthYear)
        month == IF Falsy(m) THEN 1 ELSE m[1]
        year == IF Falsy(y) THEN GetFullYear(now) ELSE y[1]
    IN 1 .. GetDate(NewDate(year, month, 0))

\* The value can be chosen in the select of the field.
Offered(field, value) ==
    CASE field = "birthDay" ->
            ParseNumber(value) # Null /\ ParseNumber(value)[1] \in DaysOffered(formData, clock)
      [] field = "birthYear" ->
            ParseNumber(value) # Null /\ ParseNumber(value)[1] \in YearsOffered
      [] OTHER -> TRUE

\* The order of the required fields on the page.  The model's user works down
\* the page: a field is reached once the fields above it are filled, and the
\* prediction mode select and the BMI card, which come below the fields, once
\* all of them are.
FieldOrder == <<"birthMonth", "birthDay", "birthYear", "sex", "bmi", "outlook",
                "alcoholConsumption", "country">>
Reached(field) ==
    \A i \in DOMAIN FieldOrder :
        (\E j \in DOMAIN FieldOrder : j > i /\ FieldOrder[j] = field)
            => formData[FieldOrder[i]] # ""

IsFormValid(form) ==
    /\ form.birthDay # "" /\ form.birthMonth # "" /\ form.birthYear # ""
    /\ form.sex # "" /\ form.bmi # "" /\ form.outlook # ""
    /\ form.alcoholConsumption # "" /\ form.country # ""

\* onValueChange / onCheckedChange of a form field.
SetFormData(field, value) ==
    /\ ~isSubmitted
    /\ Reached(field)
    /\ Offered(field, value)
    /\ formData[field] # value
    /\ formData' = [formData EXCEPT ![field] = value]
    /\ UNCHANGED <<bmiData, calculatedBMI, isSubmitted, deathResults, currentTime,
                   predictionMode, mlStatus, usedModelState, tfModelRef,
                   modelLoadPromiseRef, loadPromises, idleCallbacks,
                   pendingSubmits, timers, countdownCleanup, clock, estIn, estOut>>

\* onValueChange of one of the four selects of the BMI card.
SetBmiData(kind, unit, value) ==
    /\ ~isSubmitted
    /\ IsFormValid(formData)
    /\ bmiData' = IF kind = "weight"
                  THEN [bmiData EXCEPT !.weightUnit = unit, !.weightValue = value]
                  ELSE [bmiData EXCEPT !.heightUnit = unit, !.heightValue = value]
    /\ bmiData' # bmiData
    /\ UNCHANGED <<formData, calculatedBMI, isSubmitted, deathResults, currentTime,
                   predictionMode, mlStatus, usedModelState, tfModelRef,
                   modelLoadPromiseRef, loadPromises, idleCallbacks,
                   pendingSubmits, timers, countdownCleanup, clock, estIn, estOut>>

\* calculateBMI.
CalculateBMI ==
    /\ calculatedBMI' = CalculatedBMIAfter(bmiData, calculatedBMI)
    /\ UNCHANGED <<formData, bmiData, isSubmitted, deathResults, currentTime,
                   predictionMode, mlStatus, usedModelState, tfModelRef,
                   modelLoadPromiseRef, loadPromises, idleCallbacks,
                   pendingSubmits, timers, countdownCleanup, clock, estIn, estOut>>

\* A click on Calculate, which is disabled while a value is missing.
ClickCalculate ==
    /\ ~isSubmitted
    /\ bmiData.weightValue # "" /\ bmiData.heightValue # ""
    /\ CalculateBMI

(***************************************************************************)
(* The model loader.                                                       *)
(***************************************************************************)
\* loadTFModel without the check of modelLoadPromiseRef.
LoadTFModel_NoPromiseCheck ==
    IF tfModelRef # Null
    THEN UNCHANGED <<modelLoadPromiseRef, loadPromises, mlStatus>>
    ELSE /\ loadPromises' = Append(loadPromises, "pending")
         /\ modelLoadPromiseRef' = Len(loadPromises) + 1
         /\ mlStatus' = "loading"

\* A call of loadTFModel, up to the first await of the load it may start:
\* the cached model or the stored promise is returned as it is, otherwise a
\* load is started, its promise stored and the status set to loading.
LoadTFModel ==
    IF tfModelRef # Null \/ modelLoadPromiseRef # 0
    THEN UNCHANGED <<modelLoadPromiseRef, loadPromises, mlStatus>>
    ELSE /\ loadPromises' = Append(loadPromises, "pending")
         /\ modelLoadPromiseRef' = Len(loadPromises) + 1
         /\ mlStatus' = "loading"

\* What the call returned: 0 for the cached model, else the index of the load
\* whose promise the caller awaits.
LoadTFModelResult == IF tfModelRef # Null THEN 0 ELSE modelLoadPromiseRef'

\* onValueChange of the prediction mode select, and the auto-load effect that
\* runs when the mode has changed: in mode ml with status idle it defers a call
\* of loadTFModel to an idle period.
SetPredictionMode(mode) ==
    /\ ~isSubmitted
    /\ IsFormValid(formData)
    /\ mode # predictionMode
    /\ predictionMode' = mode
    /\ IF mode = "ml" /\ mlStatus = "idle"
       THEN /\ idleCallbacks < MaxIdleCallbacks
            /\ idleCallbacks' = idleCallbacks + 1
       ELSE UNCHANGED idleCallbacks
    /\ UNCHANGED <<formData, bmiData, calculatedBMI, isSubmitted, deathResults,
                   currentTime, mlStatus, usedModelState, tfModelRef,
                   modelLoadPromiseRef, loadPromises, pendingSubmits, timers,
                   countdownCleanup, clock, estIn, estOut>>

\* The deferred call: requestIdleCallback(() => loadTFModel()).
IdleCallback ==
    /\ idleCallbacks > 0
    /\ idleCallbacks' = idleCallbacks - 1
    /\ LoadTFModel
    /\ UNCHANGED <<formData, bmiData, calculatedBMI, isSubmitted, deathResults,
                   currentTime, predictionMode, usedModelState, tfModelRef,
                   pendingSubmits, timers, countdownCleanup, clock, estIn, estOut>>

\* The load that forgets its promise when it fails, so that a later call of
\* loadTFModel starts another one.
LoadSettles_ForgetsFailedLoad(i, loaded) ==
    /\ i \in DOMAIN loadPromises
    /\ loadPromises[i] = "pending"
    /\ IF loaded
       THEN /\ tfModelRef' = Some("model")
            /\ mlStatus' = "ready"
            /\ loadPromises' = [loadPromises EXCEPT ![i] = "model"]
            /\ UNCHANGED modelLoadPromiseRef
       ELSE /\ mlStatus' = "error"
            /\ loadPromises' = [loadPromises EXCEPT ![i] = "failed"]
            /\ modelLoadPromiseRef' = 0
            /\ UNCHANGED tfModelRef
    /\ UNCHANGED <<formData, bmiData, calculatedBMI, isSubmitted, deathResults,
                   currentTime, predictionMode, usedModelState,
                   idleCallbacks, pendingSubmits, timers,
                   countdownCleanup, clock, estIn, estOut>>

\* A load started by loadTFModel ends: with the model, which is cached and
\* the status set to ready, or with an error, caught, status error, result null.
LoadSettles(i, loaded) ==
    /\ i \in DOMAIN loadPromises
    /\ loadPromises[i] = "pending"
    /\ IF loaded
       THEN /\ tfModelRef' = Some("model")
            /\ mlStatus' = "ready"
            /\ loadPromises' = [loadPromises EXCEPT ![i] = "model"]
       ELSE /\ mlStatus' = "error"
            /\ loadPromises' = [loadPromises EXCEPT ![i] = "failed"]
            /\ UNCHANGED tfModelRef
    /\ UNCHANGED <<formData, bmiData, calculatedBMI, isSubmitted, deathResults,
                   currentTime, predictionMode, usedModelState,
                   modelLoadPromiseRef, idleCallbacks, pendingSubmits, timers,
                   countdownCleanup, clock, estIn, estOut>>

(***************************************************************************)
(* The countdown effect, with dependencies isSubmitted and targetDeathDate.*)
(***************************************************************************)
RemoveAt(seq, i) == SubSeq(seq, 1, i - 1) \o SubSeq(seq, i + 1, Len(seq))

\* The cleanup that forgets to clear the interval.
EffectCleanup_KeepsTimer(ts, cleanup) == ts

\* The cleanup of the previous run of the effect: clearInterval(interval).
EffectCleanup(ts, cleanup) ==
    IF cleanup = Null \/ ~(\E i \in DOMAIN ts : ts[i] = cleanup[1]) THEN ts
    ELSE RemoveAt(ts, CHOOSE i \in DOMAIN ts : ts[i] = cleanup[1])

\* The effect after a render in which a dependency changed: the previous run
\* is cleaned up; then, unless nothing is submitted or there is no target,
\* updateCountdown runs at once (at time now) and an interval is set.
\* shown is the countdown the handler itself had set.
CountdownEffect(shown, now) ==
    LET cleared == EffectCleanup(timers, countdownCleanup)
        target == deathResults'.targetDeathDate
    IN IF ~isSubmitted' \/ target = Null
       THEN /\ timers' = cleared
            /\ countdownCleanup' = Null
            /\ currentTime' = shown
       ELSE /\ timers' = Append(cleared, target[1])
            /\ countdownCleanup' = target
            /\ currentTime' = UpdateCountdown(target[1], now)

\* A tick that clears its own interval once the target is reached.
Tick_ClearsAtExpiry(i, now) ==
    /\ i \in DOMAIN timers
    /\ DateLeq(clock, now)
    /\ clock' = now
    /\ currentTime' = UpdateCountdown(timers[i], now)
    /\ timers' = IF DiffIsPositive(TimeDiff(timers[i], now)) THEN timers
                 ELSE RemoveAt(timers, i)
    /\ UNCHANGED <<formData, bmiData, calculatedBMI, isSubmitted, deathResults,
                   predictionMode, mlStatus, usedModelState, tfModelRef,
                   modelLoadPromiseRef, loadPromises, idleCallbacks,
                   pendingSubmits, countdownCleanup, estIn, estOut>>

\* A tick that also writes the remaining time into the stored result.
Tick_RewritesResult(i, now) ==
    /\ i \in DOMAIN timers
    /\ DateLeq(clock, now)
    /\ clock' = now
    /\ currentTime' = UpdateCountdown(timers[i], now)
    /\ deathResults' =
           [deathResults EXCEPT
               !.daysRemaining = UpdateCountdown(timers[i], now).daysRemaining,
               !.approximateYears = UpdateCountdown(timers[i], now).approximateYears]
    /\ UNCHANGED <<formData, bmiData, calculatedBMI, isSubmitted,
                   predictionMode, mlStatus, usedModelState, tfModelRef,
                   modelLoadPromiseRef, loadPromises, idleCallbacks,
                   pendingSubmits, timers, countdownCleanup, estIn, estOut>>

\* A tick of an interval: updateCountdown with the target the interval's
\* closure holds.
Tick(i, now) ==
    /\ i \in DOMAIN timers
    /\ DateLeq(clock, now)
    /\ clock' = now
    /\ currentTime' = UpdateCountdown(timers[i], now)
    /\ UNCHANGED <<formData, bmiData, calculatedBMI, isSubmitted, deathResults,
                   predictionMode, mlStatus, usedModelState, tfModelRef,
                   modelLoadPromiseRef, loadPromises, idleCallbacks,
                   pendingSubmits, timers, countdownCleanup, estIn, estOut>>

\* handleRetakeTest with the effect cleanup that follows; the link is part of
\* the results page.
HandleRetakeTest ==
    /\ isSubmitted
    /\ formData' = INITIAL_FORM_DATA
    /\ bmiData' = INITIAL_BMI_DATA
    /\ calculatedBMI' = Null
    /\ isSubmitted' = FALSE
    /\ deathResults' = INITIAL_DEATH_RESULTS
    /\ CountdownEffect(INITIAL_COUNTDOWN_TIME, clock)
    /\ UNCHANGED <<predictionMode, mlStatus, usedModelState, tfModelRef,
                   modelLoadPromiseRef, loadPromises, idleCallbacks,
                   pendingSubmits, clock, estIn, estOut>>

(***************************************************************************)
(* handleSubmit.                                                           *)
(***************************************************************************)
\* The four state setters at the end of handleSubmit and the countdown effect
\* of the render they cause; now is the time the effect reads.
SetResults(results, usedModel, now) ==
    /\ usedModelState' = usedModel
    /\ deathResults' = results
    /\ isSubmitted' = TRUE
    /\ CountdownEffect(
           [daysRemaining |-> results.daysRemaining,
            hoursRemaining |-> results.hoursRemaining,
            minutesRemaining |-> results.minutesRemaining,
            secondsRemaining |-> results.secondsRemaining,
            approximateYears |-> results.approximateYears], now)
    /\ clock' = now

\* handleSubmit from the result of computeExpectedYears on, for the birth date
\* and the age it computed at its start.
ProjectAndStore(birthDate, today, currentAge, estimate, now) ==
    SetResults(DeathResults(birthDate, today, currentAge, estimate.years),
               estimate.usedModel, now)

\* form and today are the ones the call started with.
StoreResults(form, today, estimate, now) ==
    ProjectAndStore(BirthDate(form), today,
                    CurrentAge(BirthDate(form), today), estimate, now)

\* A click on Submit in mode rule or who: nothing in the call waits for more
\* than a microtask, so no other event comes between its start and its end.
HandleSubmitSync(today, random, now) ==
    /\ ~isSubmitted
    /\ IsFormValid(formData)
    /\ predictionMode \in {"rule", "who"}
    /\ DateLeq(clock, today) /\ DateLeq(today, now)
    /\ StoreResults(formData, today,
                    ComputeExpectedYears(formData, predictionMode,
                        CurrentAge(BirthDate(formData), today), calculatedBMI,
                        Null, random),
                    now)
    /\ UNCHANGED <<formData, bmiData, calculatedBMI, predictionMode, mlStatus,
                   tfModelRef, modelLoadPromiseRef, loadPromises, idleCallbacks,
                   pendingSubmits, estIn, estOut>>

\* A click on Submit in mode ml, up to the await in predictWithModel: the call
\* has read the form, the stored BMI and the time, has called loadTFModel and
\* now waits for what it returned.
HandleSubmitMlStart(today) ==
    /\ ~isSubmitted
    /\ IsFormValid(formData)
    /\ predictionMode = "ml"
    /\ Len(pendingSubmits) < MaxPending
    /\ DateLeq(clock, today)
    /\ clock' = today
    /\ LoadTFModel
    /\ pendingSubmits' = Append(pendingSubmits,
            [formData |-> formData, calculatedBMI |-> calculatedBMI,
             today |-> today, awaiting |-> LoadTFModelResult])
    /\ UNCHANGED <<formData, bmiData, calculatedBMI, isSubmitted, deathResults,
                   currentTime, predictionMode, usedModelState, tfModelRef,
                   idleCallbacks, timers, countdownCleanup, estIn, estOut>>

\* The rest of a suspended handleSubmit, once the load it waits for has ended:
\* the prediction, the fallback when there is none, and the end of the call.
\* The calls wait in the same chain of promises, so they resume in the order
\* in which they were made.  Without a model nothing is predicted, and the
\* outcome is of no account.
HandleSubmitMlFinish(outcome, random, now) ==
    /\ pendingSubmits # <<>>
    /\ DateLeq(clock, now)
    /\ LET call == Head(pendingSubmits)
           model == IF call.awaiting = 0 \/ loadPromises[call.awaiting] = "model"
                    THEN Some("model") ELSE Null
       IN /\ call.awaiting # 0 => loadPromises[call.awaiting] # "pending"
          /\ model = Null => outcome.kind = "throw"
          /\ StoreResults(call.formData, call.today,
                 ComputeExpectedYears(call.formData, "ml",
                     CurrentAge(BirthDate(call.formData), call.today),
                     call.calculatedBMI, PredictWithModel(model, outcome), random),
                 now)
    /\ pendingSubmits' = Tail(pendingSubmits)
    /\ UNCHANGED <<formData, bmiData, calculatedBMI, predictionMode, mlStatus,
                   tfModelRef, modelLoadPromiseRef, loadPromises, idleCallbacks,
                   estIn, estOut>>

Next ==
    \/ \E e \in FormEdits : SetFormData(e[1], e[2])
    \/ \E e \in BmiEdits : SetBmiData(e[1], e[2], e[3])
    \/ ClickCalculate
    \/ \E mode \in PredictionModes : SetPredictionMode(mode)
    \/ IdleCallback
    \/ \E i \in 1 .. MaxPending + MaxIdleCallbacks, loaded \in BOOLEAN : LoadSettles(i, loaded)
    \/ \E today \in NowChoices, random \in RandomChoices, now \in NowChoices :
           HandleSubmitSync(today, random, now)
    \/ \E today \in NowChoices : HandleSubmitMlStart(today)
    \/ \E outcome \in PredictOutcomes, random \in RandomChoices, now \in NowChoices :
           HandleSubmitMlFinish(outcome, random, now)
    \/ \E i \in 1 .. MaxPending + 1, now \in NowChoices : Tick(i, now)
    \/ HandleRetakeTest

Spec == Init /\ [][Next]_vars

(***************************************************************************)
(* The form and handleSubmit on their own: the user selects and re-selects *)
(* the birth date, fills the rest of the form and submits in the mode the  *)
(* page starts in.                                                         *)
(***************************************************************************)
\* The selections of the three birth date selects, as <<field, value>>.
BirthEdits ==
    {<<"birthMonth", m>> : m \in {"1", "2", "6"}}
    \cup {<<"birthDay", d>> : d \in {"15", "29", "31"}}
    \cup {<<"birthYear", y>> : y \in {"1924", "1990", "2000", "2024"}}

\* The values "new Date()" can give in a submission: the moment the page is
\* opened, the last millisecond of 2025-02-28, the first of 2025-03-01, and
\* 2071-02-27 00:00:00.000.
SubmitNows ==
    {StartTime,
     [day |-> DaysFromCivil(2025, 2, 28), ms |-> MS_IN_DAY - 1],
     [day |-> DaysFromCivil(2025, 3, 1), ms |-> 0],
     [day |-> DaysFromCivil(2071, 2, 27), ms |-> 0]}

NextSubmit ==
    \/ \E e \in BirthEdits \cup FormEdits : SetFormData(e[1], e[2])
    \/ \E today \in SubmitNows, random \in RandomChoices, now \in SubmitNows :
           HandleSubmitSync(today, random, now)

SpecSubmit == Init /\ [][NextSubmit]_vars

(***************************************************************************)
(* computeExpectedYears on its own: one call on inputs drawn from the      *)
(* sets below, its result kept in estOut.                                  *)
(***************************************************************************)
EstCountries == {"Japan", "Nigeria", "Zimbabwe"}
EstAges == {0, 34, 100}
EstBMIs == {Null, Some(450)}
EstRandoms == {0, 999}

\* The forms: the answers that move the baseline most in either direction.
EstForms ==
    {[INITIAL_FORM_DATA EXCEPT
         !.sex = sex, !.country = country, !.smoker = smoker, !.bmi = bmi,
         !.alcoholConsumption = alcohol, !.outlook = outlook,
         !.includeFitnessDiet = fit,
         !.fitnessLevel = IF fit THEN "couch-potato" ELSE "",
         !.dietRating = IF fit THEN "terrible" ELSE ""] :
        sex \in {"male", "female", "other"}, country \in EstCountries,
        smoker \in BOOLEAN, bmi \in {"18.5-24.9", "35+"},
        alcohol \in {"never", "constantly-blotto"},
        outlook \in {"optimistic", "pessimistic"}, fit \in BOOLEAN}

\* What the predictor can do: no model (the load failed), or a model whose
\* prediction is a number of years, throws, or is null.
EstPredictors ==
    {[model |-> Null, outcome |-> [kind |-> "throw", value |-> 0]]}
    \cup {[model |-> Some("model"), outcome |-> o] :
            o \in {[kind |-> "value", value |-> 85 * YearUnit],
                   [kind |-> "value", value |-> 5 * YearUnit],
                   [kind |-> "throw", value |-> 0],
                   [kind |-> "null", value |-> 0]}}

\* The predictor is consulted in mode ml only.
EstInputs ==
    {[formData |-> f, predictionMode |-> mode, currentAge |-> age,
      calculatedBMI |-> b, model |-> p.model, outcome |-> p.outcome,
      random |-> r] :
        f \in EstForms, mode \in PredictionModes, age \in EstAges,
        b \in EstBMIs, p \in EstPredictors, r \in EstRandoms}

InitEst ==
    /\ AppInit
    /\ estIn \in {i \in EstInputs :
                    i.predictionMode # "ml" => i.model = Null}
    /\ estOut = Null

Estimate ==
    /\ estOut = Null
    /\ estOut' = Some(ComputeExpectedYears(
                          estIn.formData, estIn.predictionMode, estIn.currentAge,
                          estIn.calculatedBMI,
                          IF estIn.predictionMode = "ml"
                          THEN PredictWithModel(estIn.model, estIn.outcome)
                          ELSE Null,
                          estIn.random))
    /\ UNCHANGED <<appVars, estIn>>

SpecEst == InitEst /\ [][Estimate]_vars

\* computeExpectedYears on every answer of every question.  A FormData holds
\* any string in a field, '' included, and the function has a default for it.
WideSexes == {"male", "female", "other"}
WideBuckets == {"", "under18.5", "18.5-24.9", "25-29.9", "30-34.9", "35+"}
WideAlcohol ==
    {"", "never", "once-a-month", "2-4-times-per-month", "2-times-a-week",
     "daily", "constantly-blotto"}
WideOutlooks == {"", "optimistic", "neutral", "pessimistic"}
WideFitness == {"", "ironman", "very-active", "moderately-active", "couch-potato"}
WideDiets == {"", "excellent", "good", "ok", "terrible"}
\* Stored BMIs, in tenths: none, and the two sides of every threshold.
WideBMIs ==
    {Null} \cup {Some(b) : b \in {159, 160, 184, 185, 249, 250, 299, 300,
                                  349, 350, 399, 400}}
WideAges == {0, 24, 100}
WideRandoms == {0, 500, 999}

\* The forms without the fitness block, and the forms that differ in the
\* fitness block only.
WideForms ==
    {[INITIAL_FORM_DATA EXCEPT
         !.sex = sex, !.country = country, !.smoker = smoker, !.bmi = bmi,
         !.alcoholConsumption = alcohol, !.outlook = outlook] :
        sex \in WideSexes, country \in {"Japan", "Zimbabwe"},
        smoker \in BOOLEAN, bmi \in WideBuckets, alcohol \in WideAlcohol,
        outlook \in WideOutlooks}
FitnessForms ==
    {[INITIAL_FORM_DATA EXCEPT
         !.sex = sex, !.country = "Japan", !.bmi = "18.5-24.9",
         !.alcoholConsumption = "never", !.outlook = "neutral",
         !.includeFitnessDiet = fit, !.fitnessLevel = fitness,
         !.dietRating = diet] :
        sex \in WideSexes, fit \in BOOLEAN, fitness \in WideFitness,
        diet \in WideDiets}

\* The inputs of the call: every form without the fitness block in modes rule
\* and who; the forms of the fitness block with every stored BMI in modes rule
\* and who, and with every predictor in mode ml.
WideInput(f, mode, age, b, p, r) ==
    [formData |-> f, predictionMode |-> mode, currentAge |-> age,
     calculatedBMI |-> b, model |-> p.model, outcome |-> p.outcome,
     random |-> r]

NoPredictor == [model |-> Null, outcome |-> [kind |-> "throw", value |-> 0]]

InitEstWide ==
    /\ AppInit
    /\ \/ \E f \in WideForms, mode \in {"rule", "who"}, age \in WideAges, r \in {0, 999} :
            estIn = WideInput(f, mode, age, Null, NoPredictor, r)
       \/ \E f \in FitnessForms, mode \in {"rule", "who"}, b \in WideBMIs, r \in WideRandoms :
            estIn = WideInput(f, mode, 24, b, NoPredictor, r)
       \/ \E f \in FitnessForms, b \in {Null, Some(400)}, p \in EstPredictors, r \in WideRandoms :
            estIn = WideInput(f, "ml", 24, b, p, r)
    /\ estOut = Null

SpecEstWide == InitEstWide /\ [][Estimate]_vars

\* A second call of computeExpectedYears on the same profile, age and BMI and
\* the same prediction, with a Math.random() of its own; its result is kept
\* after the first one.
EstimateAgain ==
    /\ Len(estOut) = 1
    /\ \E random \in EstRandoms :
         /\ estIn' = [estIn EXCEPT !.random = random]
         /\ estOut' = Append(estOut,
                          ComputeExpectedYears(
                              estIn.formData, estIn.predictionMode,
                              estIn.currentAge, estIn.calculatedBMI,
                              IF estIn.predictionMode = "ml"
                              THEN PredictWithModel(estIn.model, estIn.outcome)
                              ELSE Null,
                              random))
    /\ UNCHANGED appVars

SpecEstPair == InitEst /\ [][Estimate \/ EstimateAgain]_vars

(***************************************************************************)
(* prepareModelInput on its own: one call, the features kept in estOut.    *)
(***************************************************************************)
\* The stored BMIs of the call: none, and 22.9.
InputBMIs == {Null, Some(229)}

InitInput ==
    /\ AppInit
    /\ \E f \in WideForms \cup FitnessForms, age \in WideAges, b \in InputBMIs :
         estIn = [formData |-> f, predictionMode |-> "ml", currentAge |-> age,
                  calculatedBMI |-> b, model |-> Some("model"),
                  outcome |-> [kind |-> "value", value |-> 85 * YearUnit],
                  random |-> 500]
    /\ estOut = Null

PrepareInput ==
    /\ estOut = Null
    /\ estOut' = Some(PrepareModelInput(estIn.formData, estIn.currentAge,
                                        estIn.calculatedBMI))
    /\ UNCHANGED <<appVars, estIn>>

SpecInput == InitInput /\ [][PrepareInput]_vars

(***************************************************************************)
(* The estimate of src/src/App.tsx, the App component without prediction   *)
(* modes, whose handleSubmit computes the years itself: one computation on *)
(* inputs drawn from the sets above, its result kept in estOut.            *)
(***************************************************************************)
\* isFormValid of src/src/App.tsx: a BMI bucket or a stored BMI will do.
SrcIsFormValid(form, storedBMI) ==
    /\ form.birthDay # "" /\ form.birthMonth # "" /\ form.birthYear # ""
    /\ form.sex # "" /\ form.country # ""
    /\ (form.bmi # "" \/ storedBMI # Null)

\* "if (calculatedBMI) { ... }" of src/src/App.tsx: the thresholds on the
\* stored BMI alone; null and 0 are falsy.
SrcBmiAdjustment(storedBMI) ==
    IF storedBMI = Null \/ storedBMI[1] = 0 THEN 0
    ELSE LET b == storedBMI[1]
         IN IF b < 160 THEN -8 * YearUnit
            ELSE IF b < 185 THEN -3 * YearUnit
            ELSE IF b >= 185 /\ b < 250 THEN 2 * YearUnit
            ELSE IF b >= 250 /\ b < 300 THEN -2 * YearUnit
            ELSE IF b >= 300 /\ b < 350 THEN -6 * YearUnit
            ELSE IF b >= 350 /\ b < 400 THEN -10 * YearUnit
            ELSE -15 * YearUnit

\* totalLifeExpectancy of handleSubmit in src/src/App.tsx, in YearUnit.  The
\* baseline is the one of mode rule, and the other adjustments are the same
\* statements as in computeExpectedYears.
SrcTotalLifeExpectancy(form, currentAge, storedBMI, random) ==
    ClampYears(currentAge,
               SelectBaseline(form, "rule", Null).base
               - currentAge * (YearUnit \div 10)
               + SrcBmiAdjustment(storedBMI)
               + SmokerAdjustment(form)
               + AlcoholAdjustment(form)
               + OutlookAdjustment(form)
               + FitnessDietAdjustment(form)
               + RandomFactor(random))

\* The birth date fields are filled in every form that is submitted.
InitEstSrc ==
    /\ AppInit
    /\ estIn \in {i \in EstInputs :
                    /\ i.predictionMode = "rule" /\ i.model = Null
                    /\ SrcIsFormValid([i.formData EXCEPT !.birthDay = "15",
                                           !.birthMonth = "6", !.birthYear = "1990"],
                                      i.calculatedBMI)}
    /\ estOut = Null

SrcEstimate ==
    /\ estOut = Null
    /\ estOut' = Some([years |-> SrcTotalLifeExpectancy(
                                     estIn.formData, estIn.currentAge,
                                     estIn.calculatedBMI, estIn.random),
                       usedModel |-> "rule"])
    /\ UNCHANGED <<appVars, estIn>>

SpecEstSrc == InitEstSrc /\ [][SrcEstimate]_vars

(***************************************************************************)
(* The formatting of a date on its own: one date of the year 2024, its     *)
(* formatted parts kept in estOut.                                         *)
(***************************************************************************)
\* The dates formatted: midnight of every day of 2024.
FormatDates ==
    {[day |-> n, ms |-> 0] : n \in DaysFromCivil(2024, 1, 1) .. DaysFromCivil(2024, 12, 31)}

InitFormat ==
    /\ AppInit
    /\ estIn \in FormatDates
    /\ estOut = Null

FormatOneDate ==
    /\ estOut = Null
    /\ estOut' = Some(FormatDate(estIn))
    /\ UNCHANGED <<appVars, estIn>>

SpecFormat == InitFormat /\ [][FormatOneDate]_vars

(***************************************************************************)
(* The death date on its own: for one birth date, the death dates of two   *)
(* estimates, the second not below the first, kept in estOut.              *)
(***************************************************************************)
\* The birth dates projected, all legal.
ProjectBirths ==
    {NewDate(1990, 0, 31), NewDate(1990, 1, 15), NewDate(2000, 1, 29),
     NewDate(1990, 5, 15), NewDate(1990, 11, 31)}

\* The first estimate, in YearUnit: 80 years and up to 2 months, and the
\* weeks around 81 years.
ProjectSpans == (80000 .. 80180) \cup (80900 .. 81010)

\* The second estimate is the first plus 0 to MaxSpanGap thousandths of a year.
MaxSpanGap == 5

InitProject ==
    /\ AppInit
    /\ \E b \in ProjectBirths, e \in ProjectSpans, g \in 0 .. MaxSpanGap :
         estIn = [birthDate |-> b, first |-> e, second |-> e + g]
    /\ estOut = Null

ProjectTwo ==
    /\ estOut = Null
    /\ estOut' = Some(<<DeathDate(estIn.birthDate, estIn.first),
                        DeathDate(estIn.birthDate, estIn.second)>>)
    /\ UNCHANGED <<appVars, estIn>>

SpecProject == InitProject /\ [][ProjectTwo]_vars

(***************************************************************************)
(* calculateBMI on its own: one call on any content of the four fields.    *)
(***************************************************************************)
BmiTexts == {"", "abc", "0", "-70", "-175", "70", "154", "175", "69", "48", "160"}
BmiStored == {Null, Some(215)}

InitBMI ==
    /\ formData = INITIAL_FORM_DATA
    /\ bmiData \in {[weightUnit |-> wu, weightValue |-> wv,
                     heightUnit |-> hu, heightValue |-> hv] :
                       wu \in {"kilos", "pounds"}, wv \in BmiTexts,
                       hu \in {"cm", "inches"}, hv \in BmiTexts}
    /\ calculatedBMI \in BmiStored
    /\ isSubmitted = FALSE
    /\ deathResults = INITIAL_DEATH_RESULTS
    /\ currentTime = INITIAL_COUNTDOWN_TIME
    /\ predictionMode = "who"
    /\ mlStatus = "idle"
    /\ usedModelState = "who"
    /\ tfModelRef = Null
    /\ modelLoadPromiseRef = 0
    /\ loadPromises = <<>>
    /\ idleCallbacks = 0
    /\ pendingSubmits = <<>>
    /\ timers = <<>>
    /\ countdownCleanup = Null
    /\ clock = StartTime
    /\ estIn = NoEstimate
    /\ estOut = Null

SpecBMI == InitBMI /\ [][CalculateBMI]_vars

(***************************************************************************)
(* Properties of the estimator, under SpecEst.                             *)
(***************************************************************************)
\* C1: for every currentAge >= 0, every strategy (rule, who, ml with a
\* prediction or without one) and every jitter value, the years returned by
\* computeExpectedYears are at least currentAge.
C1_YearsAtLeastCurrentAge ==
    (estOut # Null /\ estIn.currentAge >= 0) =>
        estOut[1].years >= estIn.currentAge * YearUnit

\* A call in which the adjusted baseline is below the age, with a prediction
\* of the model as the baseline: the result is the age itself.
C1_Witness ==
    /\ estOut # Null
    /\ estIn.predictionMode = "ml"
    /\ estOut[1].usedModel = "ml"
    /\ estIn.outcome.value < estIn.currentAge * YearUnit
    /\ estOut[1].years = estIn.currentAge * YearUnit

\* C2: in mode ml, when the predictor fails (the model did not load, predict
\* throws, or the prediction is null) computeExpectedYears still returns: it
\* takes the who baseline (the country's value for the sex, or 100 for an
\* unknown country), so its result is the one mode who gives, and it reports
\* who; ml is reported only for a prediction that is a value, and the modes
\* rule and who report themselves.
C2_MlFailureFallsBackToWho ==
    estOut # Null =>
        LET form == estIn.formData
            failed == estIn.model = Null \/ estIn.outcome.kind # "value"
            known == form.country \in DOMAIN COUNTRY_LIFE_EXPECTANCY
        IN /\ (estIn.predictionMode = "ml" /\ failed) =>
                /\ estOut[1].usedModel = "who"
                /\ estOut[1] = ComputeExpectedYears(form, "who", estIn.currentAge,
                                   estIn.calculatedBMI, Null, estIn.random)
                /\ SelectBaseline(form, "ml", Null).base =
                       IF ~known THEN 100 * YearUnit
                       ELSE IF form.sex = "female"
                            THEN COUNTRY_LIFE_EXPECTANCY[form.country].female
                            ELSE COUNTRY_LIFE_EXPECTANCY[form.country].male
           /\ (estOut[1].usedModel = "ml") <=>
                  (estIn.predictionMode = "ml" /\ ~failed)
           /\ estIn.predictionMode \in {"rule", "who"} =>
                  estOut[1].usedModel = estIn.predictionMode

\* A call in mode ml whose loaded model gives a null prediction, for a country
\* the table does not have: who is reported.
C2_Witness ==
    /\ estOut # Null
    /\ estIn.predictionMode = "ml"
    /\ estIn.model # Null
    /\ estIn.outcome.kind = "null"
    /\ estIn.formData.country = "Zimbabwe"
    /\ estOut[1].usedModel = "who"

(***************************************************************************)
(* Properties of the application, under Spec.                              *)
(***************************************************************************)
\* C3: whatever the order of the loadTFModel calls (the deferred call made
\* when the mode becomes ml, and the call of every submission in mode ml), at
\* most one load is ever started: a call made while the load is pending waits
\* for that same load, and a call made after it succeeded gets the cached
\* model and starts nothing.
C3_ModelLoadStartedAtMostOnce ==
    /\ Len(loadPromises) <= 1
    /\ modelLoadPromiseRef = Len(loadPromises)
    /\ tfModelRef # Null => loadPromises = <<"model">>
    /\ \A i \in DOMAIN pendingSubmits :
           IF pendingSubmits[i].awaiting = 0
           THEN tfModelRef # Null
           ELSE pendingSubmits[i].awaiting = modelLoadPromiseRef

\* The deferred call has run and a submission in mode ml has called
\* loadTFModel too, while the one load is still pending.
C3_Witness ==
    /\ predictionMode = "ml"
    /\ idleCallbacks = 0
    /\ loadPromises = <<"pending">>
    /\ Len(pendingSubmits) = 1
    /\ pendingSubmits[1].awaiting = 1

\* C4: the stored result of a submission (the target death date, the death
\* date and lifespan texts, the strategy used) is written once: while the
\* results stay displayed, that is until the next retake, no event changes
\* it, the end of another handleSubmit call included.
C4_ResultWrittenOnce ==
    [][(isSubmitted /\ isSubmitted') =>
           /\ deathResults'.targetDeathDate = deathResults.targetDeathDate
           /\ deathResults'.deathDate = deathResults.deathDate
           /\ deathResults'.lifeExpectancy = deathResults.lifeExpectancy
           /\ usedModelState' = usedModelState]_vars

\* A result is displayed while a handleSubmit call started in mode ml is
\* still waiting for the model.
C4_Witness ==
    /\ isSubmitted
    /\ Len(pendingSubmits) = 1
    /\ loadPromises = <<"pending">>

\* C5: in every state with a result, the remaining time stored by
\* handleSubmit (for the time today it read) and the one written by the
\* countdown (for the time now it last read) are the decomposition of
\* max(0, target - now): days = floor(ms / MS_IN_DAY), hours in 0..23, minutes
\* and seconds in 0..59, the three making up the rest of the day to the
\* second, approximateYears = floor(days / 365.25); none is negative.
C5_RemainingIsDecomposition ==
    LET IsDecomposition(r, timeDiff) ==
            LET left == IF DiffIsNegative(timeDiff) THEN [days |-> 0, ms |-> 0]
                        ELSE timeDiff
                hms == r.hoursRemaining * MS_IN_HOUR
                       + r.minutesRemaining * MS_IN_MINUTE
                       + r.secondsRemaining * MS_IN_SECOND
            IN /\ r.daysRemaining = left.days /\ r.daysRemaining >= 0
               /\ r.hoursRemaining \in 0 .. 23
               /\ r.minutesRemaining \in 0 .. 59
               /\ r.secondsRemaining \in 0 .. 59
               /\ hms <= left.ms /\ left.ms < hms + MS_IN_SECOND
               /\ r.approximateYears >= 0
               /\ r.approximateYears * DAYS_IN_YEAR_X100 <= left.days * 100
               /\ left.days * 100 < (r.approximateYears + 1) * DAYS_IN_YEAR_X100
    IN isSubmitted =>
           /\ deathResults.targetDeathDate # Null
           /\ IsDecomposition(currentTime,
                              TimeDiff(deathResults.targetDeathDate[1], clock))
           /\ \E today \in NowChoices :
                  /\ deathResults.testDate = FormatDate(today)
                  /\ IsDecomposition(deathResults,
                         TimeDiff(deathResults.targetDeathDate[1], today))

\* A result whose remaining time has days, hours, minutes and seconds, the
\* countdown showing the same.
C5_Witness ==
    /\ isSubmitted
    /\ deathResults.daysRemaining > 0 /\ deathResults.hoursRemaining > 0
    /\ deathResults.minutesRemaining > 0 /\ deathResults.secondsRemaining > 0
    /\ deathResults.approximateYears > 0
    /\ currentTime.daysRemaining = deathResults.daysRemaining
    /\ currentTime.secondsRemaining = deathResults.secondsRemaining

\* C6: a tick at a time now at or after the target (now equal to the death
\* date included) sets days, hours, minutes, seconds and approximate years to
\* 0; the clock never goes back, so every later tick does the same.
C6_ExpiredCountdownIsZero ==
    [][(/\ isSubmitted /\ isSubmitted'
        /\ deathResults' = deathResults
        /\ timers # <<>> /\ timers' = timers
        /\ DateLeq(deathResults.targetDeathDate[1], clock')) =>
           /\ DateLeq(clock, clock')
           /\ currentTime'.daysRemaining = 0
           /\ currentTime'.hoursRemaining = 0
           /\ currentTime'.minutesRemaining = 0
           /\ currentTime'.secondsRemaining = 0
           /\ currentTime'.approximateYears = 0]_vars

\* The time last read is the death date itself, to the millisecond, and the
\* countdown of the running interval shows zero.
C6_Witness ==
    /\ isSubmitted
    /\ timers # <<>>
    /\ clock = deathResults.targetDeathDate[1]
    /\ deathResults.daysRemaining > 0
    /\ currentTime = INITIAL_COUNTDOWN_TIME

\* C7: the countdown is running while a result with a target is displayed
\* and its interval is set.  It stops running only by handleRetakeTest, which
\* sets isSubmitted false, the target null and clears the interval; any other
\* step, a tick at or after the target included, leaves it running, and a step
\* that leaves the result as it is leaves the interval as it is.
C7_RunningLeftOnlyByRetake ==
    [][(isSubmitted /\ deathResults.targetDeathDate # Null /\ timers # <<>>) =>
           IF isSubmitted' /\ deathResults'.targetDeathDate # Null /\ timers' # <<>>
           THEN deathResults' = deathResults => timers' = timers
           ELSE /\ HandleRetakeTest
                /\ ~isSubmitted'
                /\ deathResults'.targetDeathDate = Null
                /\ timers' = <<>>]_vars

\* The target is past, the countdown shows zero and the interval is still set.
C7_Witness ==
    /\ isSubmitted
    /\ timers # <<>>
    /\ DateLeq(deathResults.targetDeathDate[1], clock)
    /\ clock # deathResults.targetDeathDate[1]
    /\ currentTime = INITIAL_COUNTDOWN_TIME

\* C8: there is at most one interval timer; there is one only while a result
\* with a target is displayed, and it counts down to that target; while the
\* form is displayed, after a retake as before the first submission, no timer
\* is left and the countdown is at its initial value, all zero.
C8_AtMostOneTimer ==
    /\ Len(timers) <= 1
    /\ timers # <<>> =>
           /\ isSubmitted
           /\ deathResults.targetDeathDate # Null
           /\ timers[1] = deathResults.targetDeathDate[1]
    /\ ~isSubmitted =>
           /\ timers = <<>>
           /\ countdownCleanup = Null
           /\ currentTime = INITIAL_COUNTDOWN_TIME

\* The form is displayed again after a result of the model was displayed.
C8_Witness ==
    /\ ~isSubmitted
    /\ usedModelState = "ml"
    /\ timers = <<>>
    /\ currentTime = INITIAL_COUNTDOWN_TIME

\* C9: handleRetakeTest puts all session state back to its initial value:
\* the form, the BMI inputs, the stored BMI, the result (with its target,
\* its texts and the strategy used) and the countdown.
C9_RetakeResetsSession ==
    [][(isSubmitted /\ ~isSubmitted') =>
           /\ formData' = INITIAL_FORM_DATA
           /\ bmiData' = INITIAL_BMI_DATA
           /\ calculatedBMI' = Null
           /\ deathResults' = INITIAL_DEATH_RESULTS
           /\ currentTime' = INITIAL_COUNTDOWN_TIME
           /\ usedModelState' = "who"]_vars

\* The form is displayed again, empty, and the strategy used is still rule.
C9_Witness ==
    /\ ~isSubmitted
    /\ formData = INITIAL_FORM_DATA
    /\ deathResults = INITIAL_DEATH_RESULTS
    /\ usedModelState = "rule"

C11_BmiRoundedHalfUp ==
    [][(LET weight == ParseNumber(bmiData.weightValue)
            height == ParseNumber(bmiData.heightValue)
        IN /\ weight # Null /\ height # Null
           /\ weight[1] > 0 /\ height[1] > 0
           /\ bmiData.weightUnit \in {"kilos", "pounds"}
           /\ bmiData.heightUnit \in {"cm", "inches"}) =>
           calculatedBMI' = Some(BmiTenths_Exact(ParseNumber(bmiData.weightValue)[1],
                                                 bmiData.weightUnit,
                                                 ParseNumber(bmiData.heightValue)[1],
                                                 bmiData.heightUnit))]_vars

\* 48 kg and 160 cm, an exact 18.75, are stored as 18.7.
C11_Witness ==
    /\ bmiData = [weightUnit |-> "kilos", weightValue |-> "48",
                  heightUnit |-> "cm", heightValue |-> "160"]
    /\ calculatedBMI = Some(187)

\* C12: two calls of computeExpectedYears in mode rule or who on the same
\* profile, current age and BMI differ through the jitter only: each jitter is
\* within [-2, +2] years, the results are at most 4 years apart, and both
\* report the same strategy.
C12_TwoCallsWithinFourYears ==
    (Len(estOut) = 2 /\ estIn.predictionMode \in {"rule", "who"}) =>
        /\ estOut[1].years - estOut[2].years <= 4 * YearUnit
        /\ estOut[2].years - estOut[1].years <= 4 * YearUnit
        /\ estOut[1].usedModel = estOut[2].usedModel
        /\ \A random \in EstRandoms :
             /\ RandomFactor(random) >= -2 * YearUnit
             /\ RandomFactor(random) <= 2 * YearUnit

\* Two calls for a newborn in Japan whose results are 3.996 years apart.
C12_Witness ==
    /\ Len(estOut) = 2
    /\ estIn.predictionMode = "who"
    /\ estIn.currentAge = 0
    /\ estIn.formData.country = "Japan"
    /\ estOut[1].years - estOut[2].years = 3996

\* C13: a submission with currentAge >= 0, whatever the strategy, stores a
\* target death date that is not earlier than the time the submission read:
\* death is never predicted in the past.
C13_DeathNotBeforeNow ==
    [][\A today \in SubmitNows, random \in RandomChoices, now \in SubmitNows :
         (/\ HandleSubmitSync(today, random, now)
          /\ CurrentAge(BirthDate(formData), today) >= 0)
         => DateLeq(today, deathResults'.targetDeathDate[1])]_vars

\* Born on 1924-06-15 and submitting on 2024-06-15 at 12:34:56.789: the age is
\* 100, the estimate is 100 years, and the target is 2024-06-15 00:00:00.000.
C13_Witness ==
    /\ isSubmitted
    /\ formData.birthYear = "1924" /\ formData.birthMonth = "6"
    /\ formData.birthDay = "15"
    /\ deathResults.currentAge = 100
    /\ deathResults.lifeExpectancy = <<100, 0, 0>>
    /\ deathResults.targetDeathDate = Some([day |-> DaysFromCivil(2024, 6, 15), ms |-> 0])
    /\ deathResults.testDate = FormatDate(StartTime)

\* C14: in mode rule the baseline is the country's figure for the sex when the
\* country is in the table, otherwise 78 years plus 4 for a female (82); in
\* mode who it is the country's figure for the sex when the country is in the
\* table, otherwise 100 years whatever the sex.  The figure for the sex is the
\* female column for a female and the male column otherwise.  The result of
\* the call is the one this baseline gives with the adjustments of the call.
C14_BaselineSelection ==
    (estOut # Null /\ estIn.predictionMode \in {"rule", "who"}) =>
        LET known == estIn.formData.country \in DOMAIN COUNTRY_LIFE_EXPECTANCY
            female == estIn.formData.sex = "female"
            baseline ==
                IF known
                THEN (IF female
                      THEN COUNTRY_LIFE_EXPECTANCY[estIn.formData.country].female
                      ELSE COUNTRY_LIFE_EXPECTANCY[estIn.formData.country].male)
                ELSE IF estIn.predictionMode = "who" THEN 100 * YearUnit
                ELSE IF female THEN 82 * YearUnit
                ELSE 78 * YearUnit
            adjusted ==
                baseline - estIn.currentAge * (YearUnit \div 10)
                + BmiAdjustment(estIn.formData, estIn.calculatedBMI)
                + SmokerAdjustment(estIn.formData)
                + AlcoholAdjustment(estIn.formData)
                + OutlookAdjustment(estIn.formData)
                + FitnessDietAdjustment(estIn.formData)
                + RandomFactor(estIn.random)
        IN estOut[1].years
               = estIn.currentAge * YearUnit
                 + Max(0, adjusted - estIn.currentAge * YearUnit)

\* A newborn female in a country that is not in the table, mode who, BMI 45,
\* no other risk: 100 - 15 + 0.5 + 2 - 2 = 85.5 years.
C14_Witness ==
    /\ estOut # Null
    /\ estIn.predictionMode = "who"
    /\ estIn.formData.country = "Zimbabwe"
    /\ estIn.formData.sex = "female"
    /\ estIn.currentAge = 0
    /\ estIn.calculatedBMI = Some(450)
    /\ ~estIn.formData.smoker
    /\ estIn.formData.alcoholConsumption = "never"
    /\ estIn.formData.outlook = "optimistic"
    /\ ~estIn.formData.includeFitnessDiet
    /\ estIn.random = 0
    /\ estOut[1].years = 85500

\* C15: whatever months, days and years have been selected, and in whatever
\* order, the birth date a submission builds is a legal date of the calendar:
\* its day exists in the selected month of the selected year.
C15_BirthDateIsLegal ==
    [][\A today \in SubmitNows, random \in RandomChoices, now \in SubmitNows :
         HandleSubmitSync(today, random, now)
         => /\ ParseNumber(formData.birthDay)[1] >= 1
            /\ ParseNumber(formData.birthDay)[1]
                   <= GetDate(NewDate(ParseNumber(formData.birthYear)[1],
                                      ParseNumber(formData.birthMonth)[1], 0))
            /\ GetDate(BirthDate(formData)) = ParseNumber(formData.birthDay)[1]
            /\ GetMonth(BirthDate(formData)) = ParseNumber(formData.birthMonth)[1] - 1]_vars

\* Day 31 selected under January, the month then changed to February: the
\* submission of 2024-06-15 builds its birth date from 31 February 1990, which
\* is 3 March 1990.
C15_Witness ==
    /\ isSubmitted
    /\ formData.birthDay = "31" /\ formData.birthMonth = "2"
    /\ formData.birthYear = "1990"
    /\ BirthDate(formData) = [day |-> DaysFromCivil(1990, 3, 3), ms |-> 0]
    /\ deathResults.testDate = FormatDate(StartTime)
    /\ deathResults.currentAge = 34

\* C16: the BMI the adjustment uses is the stored numeric BMI when there is
\* one, otherwise the midpoint of the selected bucket (17, 22, 27, 32, 37), and
\* there is no BMI adjustment only when there is neither: the years of a
\* computation in mode rule or who are the ones this BMI gives.
C16_BmiUsedForAdjustment ==
    (estOut # Null /\ estIn.predictionMode \in {"rule", "who"}) =>
        LET bucket == estIn.formData.bmi
            used == IF estIn.calculatedBMI # Null THEN estIn.calculatedBMI
                    ELSE IF bucket = "under18.5" THEN Some(170)
                    ELSE IF bucket = "18.5-24.9" THEN Some(220)
                    ELSE IF bucket = "25-29.9" THEN Some(270)
                    ELSE IF bucket = "30-34.9" THEN Some(320)
                    ELSE IF bucket = "35+" THEN Some(370)
                    ELSE Null
            adjusted ==
                SelectBaseline(estIn.formData, estIn.predictionMode, Null).base
                - estIn.currentAge * (YearUnit \div 10)
                + (IF used = Null THEN 0 ELSE BmiAdjustment(estIn.formData, used))
                + SmokerAdjustment(estIn.formData)
                + AlcoholAdjustment(estIn.formData)
                + OutlookAdjustment(estIn.formData)
                + FitnessDietAdjustment(estIn.formData)
                + RandomFactor(estIn.random)
        IN estOut[1].years
               = estIn.currentAge * YearUnit
                 + Max(0, adjusted - estIn.currentAge * YearUnit)

\* src/src/App.tsx, a newborn male in Japan with the bucket 35+ and no stored
\* BMI: 81.6 + 0.5 + 2 - 2 = 82.1 years, the bucket's -10 left out.
C16_Witness ==
    /\ estOut # Null
    /\ estIn.predictionMode = "rule"
    /\ estIn.formData.country = "Japan" /\ estIn.formData.sex = "male"
    /\ estIn.formData.bmi = "35+" /\ estIn.calculatedBMI = Null
    /\ estIn.currentAge = 0
    /\ ~estIn.formData.smoker
    /\ estIn.formData.alcoholConsumption = "never"
    /\ estIn.formData.outlook = "optimistic"
    /\ ~estIn.formData.includeFitnessDiet
    /\ estIn.random = 0
    /\ estOut[1].years = 82100

\* C17: the value computeExpectedYears returns is
\* currentAge + max(0, B - currentAge), where B is the baseline of the strategy
\* minus 0.1 years per year of age, plus the adjustments: BMI -8 below 16, -3
\* in [16, 18.5), +2 in [18.5, 25), -2 in [25, 30), -6 in [30, 35), -10 in
\* [35, 40), -15 from 40; smoker -13.2 for a male, -14.5 for anyone else;
\* alcohol never +0.5, once a month +1, 2-4 times per month +0.5, 2 times a
\* week -1, daily -5, constantly blotto -15; outlook optimistic +2,
\* pessimistic -3, neutral 0; fitness and diet; and the jitter.  In mode who a
\* male of 24 in Japan with no other adjustment gets between 77.2 and 81.2.
C17_FullFormula ==
    estOut # Null =>
        LET f == estIn.formData
            age == estIn.currentAge
            baseline ==
                SelectBaseline(f, estIn.predictionMode,
                               IF estIn.predictionMode = "ml"
                               THEN PredictWithModel(estIn.model, estIn.outcome)
                               ELSE Null).base
            bmi == IF estIn.calculatedBMI # Null THEN estIn.calculatedBMI
                   ELSE BmiFromCategory(f.bmi)
            bmiAdj ==
                IF bmi = Null THEN 0
                ELSE IF bmi[1] < 160 THEN -8000
                ELSE IF bmi[1] >= 160 /\ bmi[1] < 185 THEN -3000
                ELSE IF bmi[1] >= 185 /\ bmi[1] < 250 THEN 2000
                ELSE IF bmi[1] >= 250 /\ bmi[1] < 300 THEN -2000
                ELSE IF bmi[1] >= 300 /\ bmi[1] < 350 THEN -6000
                ELSE IF bmi[1] >= 350 /\ bmi[1] < 400 THEN -10000
                ELSE -15000
            smokeAdj == IF ~f.smoker THEN 0
                        ELSE IF f.sex = "male" THEN -13200 ELSE -14500
            alcoholAdj ==
                IF f.alcoholConsumption = "never" THEN 500
                ELSE IF f.alcoholConsumption = "once-a-month" THEN 1000
                ELSE IF f.alcoholConsumption = "2-4-times-per-month" THEN 500
                ELSE IF f.alcoholConsumption = "2-times-a-week" THEN -1000
                ELSE IF f.alcoholConsumption = "daily" THEN -5000
                ELSE IF f.alcoholConsumption = "constantly-blotto" THEN -15000
                ELSE 0
            outlookAdj == IF f.outlook = "optimistic" THEN 2000
                          ELSE IF f.outlook = "pessimistic" THEN -3000
                          ELSE 0
            B == baseline - 100 * age + bmiAdj + smokeAdj + alcoholAdj
                 + outlookAdj + FitnessDietAdjustment(f)
                 + RandomFactor(estIn.random)
        IN /\ estOut[1].years = 1000 * age + Max(0, B - 1000 * age)
           /\ (/\ estIn.predictionMode = "who" /\ age = 24
               /\ f.sex = "male" /\ f.country = "Japan"
               /\ bmi = Null /\ ~f.smoker /\ f.alcoholConsumption = ""
               /\ f.outlook \in {"", "neutral"} /\ ~f.includeFitnessDiet)
              => (estOut[1].years >= 77200 /\ estOut[1].years <= 81200)

\* The male of 24 in Japan, mode who, no answer that adjusts, and the lowest
\* jitter: 81.6 - 2.4 - 2 = 77.2 years.
C17_Witness ==
    /\ estOut # Null
    /\ estIn.predictionMode = "who" /\ estIn.currentAge = 24
    /\ estIn.formData.sex = "male" /\ estIn.formData.country = "Japan"
    /\ estIn.formData.bmi = "" /\ estIn.calculatedBMI = Null
    /\ ~estIn.formData.smoker /\ estIn.formData.alcoholConsumption = ""
    /\ estIn.formData.outlook = "neutral"
    /\ ~estIn.formData.includeFitnessDiet
    /\ estIn.random = 0
    /\ estOut[1].years = 77200

\* C18: with the include-fitness flag off, the fitness level and the diet
\* rating of the form, whatever they are, change neither the result of
\* computeExpectedYears for the same jitter nor the features prepared for the
\* model; with the flag on, the fitness adds +8 (ironman), +5 (very active),
\* +3 (moderately active) or -4 (couch potato) and the diet +4 (excellent),
\* +2 (good), 0 (ok) or -3 (terrible).
C18_FitnessOnlyWhenIncluded ==
    estOut # Null =>
        LET f == estIn.formData
            age == estIn.currentAge
            prediction == IF estIn.predictionMode = "ml"
                          THEN PredictWithModel(estIn.model, estIn.outcome)
                          ELSE Null
            fitnessAdj == IF f.fitnessLevel = "ironman" THEN 8000
                          ELSE IF f.fitnessLevel = "very-active" THEN 5000
                          ELSE IF f.fitnessLevel = "moderately-active" THEN 3000
                          ELSE IF f.fitnessLevel = "couch-potato" THEN -4000
                          ELSE 0
            dietAdj == IF f.dietRating = "excellent" THEN 4000
                       ELSE IF f.dietRating = "good" THEN 2000
                       ELSE IF f.dietRating = "terrible" THEN -3000
                       ELSE 0
            B == SelectBaseline(f, estIn.predictionMode, prediction).base
                 - 100 * age
                 + BmiAdjustment(f, estIn.calculatedBMI) + SmokerAdjustment(f)
                 + AlcoholAdjustment(f) + OutlookAdjustment(f)
                 + RandomFactor(estIn.random)
        IN IF f.includeFitnessDiet
           THEN estOut[1].years
                    = 1000 * age + Max(0, B + fitnessAdj + dietAdj - 1000 * age)
           ELSE \A fitness \in WideFitness, diet \in WideDiets :
                  /\ ComputeExpectedYears(
                         [f EXCEPT !.fitnessLevel = fitness, !.dietRating = diet],
                         estIn.predictionMode, age, estIn.calculatedBMI,
                         prediction, estIn.random) = estOut[1]
                  /\ PrepareModelInput(
                         [f EXCEPT !.fitnessLevel = fitness, !.dietRating = diet],
                         age, estIn.calculatedBMI)
                       = PrepareModelInput(f, age, estIn.calculatedBMI)

\* Ironman and a terrible diet left in the form with the flag off: the male of
\* 24 in Japan gets 81.6 - 2.4 + 2 + 0.5 = 81.7 years at a jitter of 0.
C18_Witness ==
    /\ estOut # Null
    /\ ~estIn.formData.includeFitnessDiet
    /\ estIn.formData.fitnessLevel = "ironman"
    /\ estIn.formData.dietRating = "terrible"
    /\ estIn.formData.sex = "male"
    /\ estIn.predictionMode = "who" /\ estIn.calculatedBMI = Null
    /\ estIn.random = 500
    /\ estOut[1].years = 81700

\* C19: the features prepareModelInput builds are: the age; the sex, 0 for a
\* male and 1 for anyone else; the BMI, the stored number if there is one,
\* else the midpoint of the bucket, else 22; the smoker flag as 0 or 1; the
\* alcohol level, 0 to 5 in the order never, once a month, 2-4 times per
\* month, 2 times a week, daily, constantly blotto; the outlook level,
\* pessimistic 0, neutral 1, optimistic 2; the fitness and the diet level,
\* within 0..3 and both 1 when fitness and diet are not included.
C19_FeatureVector ==
    estOut # Null =>
        LET f == estIn.formData
            x == estOut[1]
        IN /\ x.age = estIn.currentAge
           /\ x.sex = (IF f.sex = "male" THEN 0 ELSE 1)
           /\ x.bmi = (IF estIn.calculatedBMI # Null THEN estIn.calculatedBMI[1]
                       ELSE IF f.bmi = "under18.5" THEN 170
                       ELSE IF f.bmi = "18.5-24.9" THEN 220
                       ELSE IF f.bmi = "25-29.9" THEN 270
                       ELSE IF f.bmi = "30-34.9" THEN 320
                       ELSE IF f.bmi = "35+" THEN 370
                       ELSE 220)
           /\ x.smoker = (IF f.smoker THEN 1 ELSE 0)
           /\ x.alcoholLevel \in 0 .. 5
           /\ f.alcoholConsumption = "never" => x.alcoholLevel = 0
           /\ f.alcoholConsumption = "once-a-month" => x.alcoholLevel = 1
           /\ f.alcoholConsumption = "2-4-times-per-month" => x.alcoholLevel = 2
           /\ f.alcoholConsumption = "2-times-a-week" => x.alcoholLevel = 3
           /\ f.alcoholConsumption = "daily" => x.alcoholLevel = 4
           /\ f.alcoholConsumption = "constantly-blotto" => x.alcoholLevel = 5
           /\ x.outlookLevel \in 0 .. 2
           /\ f.outlook = "pessimistic" => x.outlookLevel = 0
           /\ f.outlook = "neutral" => x.outlookLevel = 1
           /\ f.outlook = "optimistic" => x.outlookLevel = 2
           /\ x.fitnessLevel \in 0 .. 3 /\ x.dietLevel \in 0 .. 3
           /\ ~f.includeFitnessDiet => (x.fitnessLevel = 1 /\ x.dietLevel = 1)

\* The features of a person whose sex is other: the sex feature is 0.
C19_Witness ==
    /\ estOut # Null
    /\ estIn.formData.sex = "other"
    /\ estIn.formData.country = "Japan"
    /\ estIn.formData.bmi = "35+" /\ estIn.calculatedBMI = Null
    /\ estIn.formData.alcoholConsumption = "daily"
    /\ estIn.formData.outlook = "optimistic"
    /\ estIn.formData.smoker
    /\ estIn.currentAge = 24
    /\ estOut[1] = [age |-> 24, sex |-> 0, bmi |-> 370, smoker |-> 1,
                    alcoholLevel |-> 4, outlookLevel |-> 2,
                    fitnessLevel |-> 1, dietLevel |-> 1]

\* C20: the age a submission computes is the year of now minus the year of
\* birth, less 1 exactly when (month, day) of now comes before (month, day) of
\* birth in lexicographic order; for a legal birth date that is not after now
\* it is the number of birthdays reached, the anniversaries of the birth date
\* in the years after the year of birth that are not after today.
C20_CurrentAge ==
    [][\A today \in SubmitNows, random \in RandomChoices, now \in SubmitNows :
         HandleSubmitSync(today, random, now) =>
           LET by == ParseNumber(formData.birthYear)[1]
               bm == ParseNumber(formData.birthMonth)[1]
               bd == ParseNumber(formData.birthDay)[1]
               legal == bd <= GetDate(NewDate(by, bm, 0))
               birth == CivilFromDays(BirthDate(formData).day)
               t == CivilFromDays(today.day)
               before == \/ t.month < birth.month
                         \/ (t.month = birth.month /\ t.day < birth.day)
           IN /\ deathResults'.currentAge
                    = t.year - birth.year - (IF before THEN 1 ELSE 0)
              /\ (legal /\ DaysFromCivil(by, bm, bd) <= today.day)
                 => deathResults'.currentAge
                        = Cardinality({y \in by + 1 .. t.year :
                                         DaysFromCivil(y, bm, bd) <= today.day})]_vars

\* Born on 2000-02-29 and submitting in the last millisecond of 2025-02-28:
\* the age is 24.
C20_Witness ==
    /\ isSubmitted
    /\ formData.birthYear = "2000" /\ formData.birthMonth = "2"
    /\ formData.birthDay = "29"
    /\ deathResults.testDate = FormatDate([day |-> DaysFromCivil(2025, 2, 28), ms |-> 0])
    /\ deathResults.currentAge = 24

\* C21: for a legal birth date that is not after now, the age breakdown of a
\* submission has its months within 0..11 and its days within 0..30; the days
\* are not negative, also when the day of birth does not exist in the month
\* before now.
C21_AgeBreakdownInRange ==
    [][\A today \in SubmitNows, random \in RandomChoices, now \in SubmitNows :
         (/\ HandleSubmitSync(today, random, now)
          /\ ParseNumber(formData.birthDay)[1]
                 <= GetDate(NewDate(ParseNumber(formData.birthYear)[1],
                                    ParseNumber(formData.birthMonth)[1], 0))
          /\ DateLeq(BirthDate(formData), today))
         => /\ deathResults'.ageInMonths \in 0 .. 11
            /\ deathResults'.ageInDays \in 0 .. 30]_vars

\* Born on 1990-01-31 and submitting on 2025-03-01 at 00:00: the month before
\* now has no day 31, "31 February" is 3 March, and the days are -2.
C21_Witness ==
    /\ isSubmitted
    /\ formData.birthYear = "1990" /\ formData.birthMonth = "1"
    /\ formData.birthDay = "31"
    /\ deathResults.testDate = FormatDate([day |-> DaysFromCivil(2025, 3, 1), ms |-> 0])
    /\ deathResults.currentAge = 35
    /\ deathResults.ageInMonths = 1
    /\ deathResults.ageInDays = -2

\* C22: the death date is the birth date advanced by the whole years of the
\* estimate, the result advanced by the whole months, and that result advanced
\* by the days, each step starting from the normalised date the step before
\* produced, also when a step rolls over the end of a month.
C22_OffsetsAppliedInTurn ==
    [][\A today \in SubmitNows, random \in RandomChoices, now \in SubmitNows :
         HandleSubmitSync(today, random, now) =>
           deathResults'.targetDeathDate
             = Some(SetDate(
                      SetMonth(
                        SetFullYear(BirthDate(formData),
                                    GetFullYear(BirthDate(formData))
                                        + deathResults'.lifeExpectancy[1]),
                        GetMonth(SetFullYear(BirthDate(formData),
                                             GetFullYear(BirthDate(formData))
                                                 + deathResults'.lifeExpectancy[1]))
                            + deathResults'.lifeExpectancy[2]),
                      GetDate(SetMonth(
                                SetFullYear(BirthDate(formData),
                                            GetFullYear(BirthDate(formData))
                                                + deathResults'.lifeExpectancy[1]),
                                GetMonth(SetFullYear(BirthDate(formData),
                                                     GetFullYear(BirthDate(formData))
                                                         + deathResults'.lifeExpectancy[1]))
                                    + deathResults'.lifeExpectancy[2]))
                          + deathResults'.lifeExpectancy[3]))]_vars

\* Born on 2024-02-29 with an estimate of 85 years, 7 months and 6 days: the
\* stored death date is 5 October 2109, while 1 March 2109 (the birth date 85
\* years on) plus 7 months plus 6 days is 7 October 2109.
C22_Witness ==
    /\ isSubmitted
    /\ formData.birthYear = "2024" /\ formData.birthMonth = "2"
    /\ formData.birthDay = "29"
    /\ deathResults.lifeExpectancy = <<85, 7, 6>>
    /\ deathResults.targetDeathDate = Some([day |-> DaysFromCivil(2109, 10, 5), ms |-> 0])
    /\ SetFullYear(BirthDate(formData), 2109) = [day |-> DaysFromCivil(2109, 3, 1), ms |-> 0]

\* C23: when the estimate is the current age (the adjusted baseline is not
\* above the age), the death date of the result is the anniversary of the
\* birth date at that age, and the remaining days, hours, minutes, seconds and
\* approximate years the submission stores, and those the countdown writes
\* from its first run on, are all 0, none negative.
C23_ClampedEstimateShowsZero ==
    (isSubmitted /\ deathResults.lifeExpectancy = <<deathResults.currentAge, 0, 0>>) =>
        /\ IsFormValid(formData) =>
             deathResults.targetDeathDate
                = Some(NewDate(GetFullYear(BirthDate(formData)) + deathResults.currentAge,
                               GetMonth(BirthDate(formData)),
                               GetDate(BirthDate(formData))))
        /\ deathResults.daysRemaining = 0 /\ deathResults.hoursRemaining = 0
        /\ deathResults.minutesRemaining = 0 /\ deathResults.secondsRemaining = 0
        /\ deathResults.approximateYears = 0
        /\ currentTime.daysRemaining = 0 /\ currentTime.hoursRemaining = 0
        /\ currentTime.minutesRemaining = 0 /\ currentTime.secondsRemaining = 0
        /\ currentTime.approximateYears = 0

\* Born on 1990-06-15 and submitting on 2071-02-27 at the age of 80 with an
\* estimate of 80 years: the target is 2070-06-15, and the countdown that has
\* run again on 2100-01-01 shows zero.
C23_Witness ==
    /\ isSubmitted
    /\ deathResults.currentAge = 80
    /\ deathResults.lifeExpectancy = <<80, 0, 0>>
    /\ deathResults.targetDeathDate = Some([day |-> DaysFromCivil(2070, 6, 15), ms |-> 0])
    /\ deathResults.testDate = FormatDate([day |-> DaysFromCivil(2071, 2, 27), ms |-> 0])
    /\ timers # <<>>
    /\ clock = [day |-> DaysFromCivil(2100, 1, 1), ms |-> 1]
    /\ currentTime = INITIAL_COUNTDOWN_TIME

\* C24: with ms the milliseconds from the birth date to now, a submission
\* reports floor(ms / 86400000) days lived, floor(ms / (7 * 86400000)) weeks and
\* floor(ms / (30.44 * 86400000)) months, each the floor of ms by its unit.
\* ms is d days and r milliseconds; 30.44 days are 761 times 3456000 ms, and
\* 100 * d = 3044 * q + 4 * k with 0 <= k < 761 gives floor(ms / 30.44 days)
\* = q, or q + 1 when r >= (761 - k) * 3456000.
C24_TotalsLived ==
    [][\A today \in SubmitNows, random \in RandomChoices, now \in SubmitNows :
         HandleSubmitSync(today, random, now) =>
           LET d == TimeDiff(today, BirthDate(formData)).days
               r == TimeDiff(today, BirthDate(formData)).ms
               q == (100 * d) \div 3044
               k == ((100 * d) % 3044) \div 4
           IN /\ deathResults'.totalDaysLived = d
              /\ deathResults'.totalWeeksLived = d \div 7
              /\ deathResults'.totalMonthsLived
                   = q + (IF 761 - k <= 25 /\ r >= (761 - k) * 3456000
                          THEN 1 ELSE 0)]_vars

\* Born on 2024-02-29 and submitting in the last millisecond of 2025-02-28,
\* 365.99999 days or 12.02 months of 30.44 days later: 11 months are stored.
C24_Witness ==
    /\ isSubmitted
    /\ formData.birthYear = "2024" /\ formData.birthMonth = "2"
    /\ formData.birthDay = "29"
    /\ deathResults.testDate = FormatDate([day |-> DaysFromCivil(2025, 2, 28), ms |-> 0])
    /\ deathResults.totalDaysLived = 365
    /\ deathResults.totalWeeksLived = 52
    /\ deathResults.totalMonthsLived = 11

\* C25: for a day of the month d in 1..31 the suffix is "th" when 3 < d < 21,
\* and otherwise "st", "nd" or "rd" for a last digit of 1, 2 or 3 and "th" for
\* any other: 1st, 2nd, 3rd, 4th to 20th (11th, 12th, 13th), 21st, 22nd, 23rd,
\* 24th to 30th, 31st.
C25_OrdinalSuffix ==
    estOut # Null =>
        /\ estOut[1][2] \in 1 .. 31
        /\ estOut[1][2] = CivilFromDays(estIn.day).day
        /\ estOut[1][3] = (IF estOut[1][2] \in {1, 21, 31} THEN "st"
                           ELSE IF estOut[1][2] \in {2, 22} THEN "nd"
                           ELSE IF estOut[1][2] \in {3, 23} THEN "rd"
                           ELSE "th")
        /\ \A d \in 1 .. 31 :
             GetOrdinalSuffix(d)
               = (IF 3 < d /\ d < 21 THEN "th"
                  ELSE IF d % 10 = 1 THEN "st"
                  ELSE IF d % 10 = 2 THEN "nd"
                  ELSE IF d % 10 = 3 THEN "rd"
                  ELSE "th")

\* 12 June 2024 is formatted with the suffix "th".
C25_Witness ==
    /\ estOut # Null
    /\ estIn = [day |-> DaysFromCivil(2024, 6, 12), ms |-> 0]
    /\ estOut[1] = <<"Wednesday", 12, "th", "June", 2024>>

\* C26: a tick of the countdown changes the countdown (days, hours, minutes,
\* seconds, approximate years) and nothing else: the stored result with its
\* target death date, the strategy used, the form, the BMI inputs and the
\* stored BMI stay as they are, no interval is set or cleared, and no
\* estimate is started or finished.
C26_TickChangesCountdownOnly ==
    [][\A i \in 1 .. MaxPending + 1, now \in NowChoices :
         Tick(i, now) =>
           /\ deathResults' = deathResults
           /\ usedModelState' = usedModelState
           /\ formData' = formData
           /\ bmiData' = bmiData
           /\ calculatedBMI' = calculatedBMI
           /\ isSubmitted' = isSubmitted
           /\ predictionMode' = predictionMode
           /\ timers' = timers
           /\ pendingSubmits' = pendingSubmits
           /\ loadPromises' = loadPromises
           /\ estOut' = estOut
           /\ currentTime' = UpdateCountdown(deathResults.targetDeathDate[1], now)]_vars

\* A result of 2024-06-15 whose countdown, read again on 2071-02-27, shows
\* fewer days than the result stores.
C26_Witness ==
    /\ isSubmitted
    /\ deathResults.testDate = FormatDate(StartTime)
    /\ clock = [day |-> DaysFromCivil(2071, 2, 27), ms |-> 0]
    /\ currentTime.daysRemaining > 0
    /\ currentTime.daysRemaining < deathResults.daysRemaining
    /\ timers = <<deathResults.targetDeathDate[1]>>

\* C27: for one legal birth date, the death date does not go back when the
\* estimate grows: if the years, months and days of one estimate are, in
\* lexicographic order, at or after those of another, its death date is not
\* earlier.
C27_DeathDateMonotone ==
    estOut # Null =>
        LET low == LifespanParts(estIn.first)
            high == LifespanParts(estIn.second)
            atOrAfter == \/ high[1] > low[1]
                         \/ (high[1] = low[1] /\ high[2] > low[2])
                         \/ (high[1] = low[1] /\ high[2] = low[2] /\ high[3] >= low[3])
        IN atOrAfter => DateLeq(estOut[1][1], estOut[1][2])

\* Born on 1990-02-15: 80 years, 0 months and 30 days end on 17 March 2070,
\* and the longer 80 years, 1 month and 0 days on 15 March 2070.
C27_Witness ==
    /\ estOut # Null
    /\ estIn.birthDate = [day |-> DaysFromCivil(1990, 2, 15), ms |-> 0]
    /\ LifespanParts(estIn.first) = <<80, 0, 30>>
    /\ LifespanParts(estIn.second) = <<80, 1, 0>>
    /\ estOut[1][1] = [day |-> DaysFromCivil(2070, 3, 17), ms |-> 0]
    /\ estOut[1][2] = [day |-> DaysFromCivil(2070, 3, 15), ms |-> 0]

\* C28: the model-load status only steps from idle to loading and from
\* loading to ready or to error, and never leaves ready or error; it is ready
\* exactly when a model is cached; once a load has failed no call of
\* loadTFModel starts another load, and every submission in mode ml that ends
\* from then on reports the strategy who.
C28_LoadStatus ==
    /\ [](mlStatus = "ready" <=> tfModelRef # Null)
    /\ [][/\ mlStatus' # mlStatus =>
               \/ mlStatus = "idle" /\ mlStatus' = "loading"
               \/ mlStatus = "loading" /\ mlStatus' \in {"ready", "error"}
          /\ mlStatus = "error" =>
               /\ loadPromises' = loadPromises
               /\ modelLoadPromiseRef' = modelLoadPromiseRef
               /\ \A outcome \in PredictOutcomes, random \in RandomChoices, now \in NowChoices :
                    HandleSubmitMlFinish(outcome, random, now) => usedModelState' = "who"]_vars

\* The load has failed and a submission in mode ml has been stored since.
C28_Witness ==
    /\ mlStatus = "error"
    /\ modelLoadPromiseRef # 0
    /\ loadPromises[modelLoadPromiseRef] = "failed"
    /\ predictionMode = "ml"
    /\ isSubmitted
    /\ pendingSubmits = <<>>
    /\ usedModelState = "who"

\* C29: after a retake the clock is Idle (nothing submitted, no target, the
\* countdown all zero) and stays Idle until a Submit made after that retake
\* ends.  While the form is still the empty one the retake left, no Submit
\* has been made since (the button is disabled), so no step leaves Idle: a
\* handleSubmit suspended since before the retake stores nothing.
C29_IdleAfterRetake ==
    [][(/\ formData = INITIAL_FORM_DATA
        /\ ~isSubmitted
        /\ deathResults.targetDeathDate = Null
        /\ currentTime = INITIAL_COUNTDOWN_TIME)
       => (/\ ~isSubmitted'
           /\ deathResults'.targetDeathDate = Null
           /\ currentTime' = INITIAL_COUNTDOWN_TIME)]_vars

\* The results view over the empty form of a retake: a handleSubmit that was
\* suspended before the retake has ended after it.
C29_Witness ==
    /\ isSubmitted
    /\ formData = INITIAL_FORM_DATA
    /\ deathResults.targetDeathDate # Null
    /\ pendingSubmits = <<>>

\* C30: for every birth date the form lets the user select, the year list
\* having the current year in it, the currentAge that handleSubmit computes
\* and passes to the estimator is at least 0.
C30_CurrentAgeNotNegative ==
    [][\A today \in SubmitNows, random \in RandomChoices, now \in SubmitNows :
         HandleSubmitSync(today, random, now) =>
             /\ CurrentAge(BirthDate(formData), today) >= 0
             /\ deathResults'.currentAge >= 0]_vars

\* Born on 29 June 2024, a date of the current year the selects offer, and
\* submitted on 15 June 2024: the age is -1.
C30_Witness ==
    /\ isSubmitted
    /\ formData.birthYear = "2024"
    /\ formData.birthMonth = "6"
    /\ formData.birthDay = "29"
    /\ clock = StartTime
    /\ deathResults.currentAge = -1

====
